---- MODULE Spec2Model ----
(***************************************************************************)
(* Model of the query pipeline of the OSI ONE agent:                       *)
(*   NLPProcessor (src/src/core/nlp/processor.py),                         *)
(*   AgentOrchestrator (src/src/core/agent/orchestrator.py),               *)
(*   AzureDevOpsTool.update_work_item (src/src/tools/azure_devops.py).     *)
(*                                                                         *)
(* A Python str is a sequence of one-character strings, so that substring  *)
(* tests, regular expressions, lower(), split() and int() are computed on  *)
(* the characters as the code computes them.  A value the code may leave   *)
(* out of a dict (or set to None) is the empty sequence, which the code    *)
(* also treats as false.                                                   *)
(***************************************************************************)
EXTENDS Integers, Sequences, FiniteSets, TLC

(***************************************************************************)
(* Characters and Python str operations                                    *)
(***************************************************************************)
Digits == {"0", "1", "2", "3", "4", "5", "6", "7", "8", "9"}

LowerLetters ==
  {"a", "b", "c", "d", "e", "f", "g", "h", "i", "j", "k", "l", "m",
   "n", "o", "p", "q", "r", "s", "t", "u", "v", "w", "x", "y", "z"}

UpperToLower ==
  ("A" :> "a") @@ ("B" :> "b") @@ ("C" :> "c") @@ ("D" :> "d") @@ ("E" :> "e") @@
  ("F" :> "f") @@ ("G" :> "g") @@ ("H" :> "h") @@ ("I" :> "i") @@ ("J" :> "j") @@
  ("K" :> "k") @@ ("L" :> "l") @@ ("M" :> "m") @@ ("N" :> "n") @@ ("O" :> "o") @@
  ("P" :> "p") @@ ("Q" :> "q") @@ ("R" :> "r") @@ ("S" :> "s") @@ ("T" :> "t") @@
  ("U" :> "u") @@ ("V" :> "v") @@ ("W" :> "w") @@ ("X" :> "x") @@ ("Y" :> "y") @@
  ("Z" :> "z")

UpperLetters == DOMAIN UpperToLower

\* \s, \d and \w of the re module, on the characters the inputs are drawn from
Whitespace == {" ", "\n", "\t"}
WordChars == Digits \cup LowerLetters \cup UpperLetters \cup {"_"}
Quotes == {"'", "\""}

\* str.lower()
Lower(s) == [i \in 1..Len(s) |-> IF s[i] \in UpperLetters THEN UpperToLower[s[i]] ELSE s[i]]

LowerToUpper(c) == IF c \in LowerLetters THEN CHOOSE u \in UpperLetters : UpperToLower[u] = c ELSE c

\* str.upper()
Upper(s) == [i \in 1..Len(s) |-> LowerToUpper(s[i])]

\* `p in s` for two str
Contains(s, p) == \E i \in 1..(Len(s) - Len(p) + 1) : SubSeq(s, i, i + Len(p) - 1) = p

\* any(keyword in s for keyword in keywords)
ContainsAny(s, keywords) == \E k \in 1..Len(keywords) : Contains(s, keywords[k])

\* str.isdigit(), on the characters the inputs are drawn from
IsDigit(s) == Len(s) > 0 /\ \A i \in 1..Len(s) : s[i] \in Digits

DigitValue == ("0" :> 0) @@ ("1" :> 1) @@ ("2" :> 2) @@ ("3" :> 3) @@ ("4" :> 4) @@
              ("5" :> 5) @@ ("6" :> 6) @@ ("7" :> 7) @@ ("8" :> 8) @@ ("9" :> 9)

\* int(s) for a str of digits
RECURSIVE ParseInt(_)
ParseInt(s) ==
  IF Len(s) = 0 THEN 0
  ELSE 10 * ParseInt(SubSeq(s, 1, Len(s) - 1)) + DigitValue[s[Len(s)]]

\* str.strip()
RECURSIVE Strip(_)
Strip(s) ==
  IF Len(s) = 0 THEN s
  ELSE IF s[1] \in Whitespace THEN Strip(Tail(s))
  ELSE IF s[Len(s)] \in Whitespace THEN Strip(SubSeq(s, 1, Len(s) - 1))
  ELSE s

\* str.split('\n')
RECURSIVE SplitLines(_)
SplitLines(s) ==
  IF \A i \in 1..Len(s) : s[i] # "\n" THEN <<s>>
  ELSE LET nl == CHOOSE i \in 1..Len(s) : s[i] = "\n" /\ \A j \in 1..(i - 1) : s[j] # "\n"
       IN  <<SubSeq(s, 1, nl - 1)>> \o SplitLines(SubSeq(s, nl + 1, Len(s)))

(***************************************************************************)
(* Regular expressions.  A pattern is a sequence of items: a literal, or a *)
(* greedy repetition {min,max} of a character class (max = -1: no limit).  *)
(* In every pattern of the program the item after a repetition cannot      *)
(* start with a character of the repeated class, so greedy matching        *)
(* without backtracking is what re computes.  from/to name the items of    *)
(* the captured group.                                                     *)
(***************************************************************************)
Lit(s) == [k |-> "lit", s |-> s, cls |-> {}, neg |-> FALSE, min |-> 0, max |-> 0]
Rep(cls, min, max) == [k |-> "rep", s |-> <<>>, cls |-> cls, neg |-> FALSE, min |-> min, max |-> max]
RepNot(cls, min, max) == [k |-> "rep", s |-> <<>>, cls |-> cls, neg |-> TRUE, min |-> min, max |-> max]
Pat(items, from, to) == [items |-> items, from |-> from, to |-> to]

InClass(c, item) == IF item.neg THEN c \notin item.cls ELSE c \in item.cls

\* number of characters a greedy repetition takes at pos
RunLen(s, pos, item) ==
  LET room == Len(s) - pos + 1
      m == IF item.max < 0 \/ item.max > room THEN room ELSE item.max
  IN  CHOOSE n \in 0..m :
        /\ \A j \in 0..(n - 1) : InClass(s[pos + j], item)
        /\ (n = m \/ ~InClass(s[pos + n], item))

\* the position after one item at pos; 0 if it does not match
ItemEnd(s, pos, item) ==
  IF item.k = "lit"
  THEN IF pos + Len(item.s) - 1 <= Len(s) /\ SubSeq(s, pos, pos + Len(item.s) - 1) = item.s
       THEN pos + Len(item.s) ELSE 0
  ELSE LET n == RunLen(s, pos, item) IN IF n >= item.min THEN pos + n ELSE 0

\* e, then the positions `rest` of the items after it; <<0>> if these did not match
EndsFrom(e, rest) == IF Len(rest) > 0 /\ rest[1] = 0 THEN <<0>> ELSE <<e>> \o rest

\* the positions after each of the items i.. of a match starting at pos; <<0>> for no match
RECURSIVE MatchFrom(_, _, _, _)
RECURSIVE MatchRest(_, _, _, _)
MatchRest(s, e, items, i) ==
  IF e = 0 THEN <<0>> ELSE EndsFrom(e, MatchFrom(s, e, items, i + 1))

MatchFrom(s, pos, items, i) ==
  IF i > Len(items) THEN <<>>
  ELSE MatchRest(s, ItemEnd(s, pos, items[i]), items, i)

Min(set) == CHOOSE q \in set : \A r \in set : q <= r

\* the match object of a match of pat at p, whose items end at `ends`
MatchAt(pat, p, ends) ==
  [found |-> TRUE, start |-> p, end |-> ends[Len(ends)],
   gfrom |-> IF pat.from = 1 THEN p ELSE ends[pat.from - 1],
   gto |-> ends[pat.to] - 1]

\* the match at the least of the positions cands, or found = FALSE if there is none
LeftmostMatch(s, pat, cands) ==
  IF cands = {} THEN [found |-> FALSE, start |-> 0, end |-> 0, gfrom |-> 0, gto |-> 0]
  ELSE MatchAt(pat, Min(cands), MatchFrom(s, Min(cands), pat.items, 1))

\* re.search(pat, s) from position `start` on: the leftmost match, or found = FALSE
SearchFrom(s, pat, start) ==
  LeftmostMatch(s, pat, {p \in start..Len(s) : MatchFrom(s, p, pat.items, 1)[1] # 0})

Search(s, pat) == SearchFrom(s, pat, 1)

\* re.search(pat, s, re.IGNORECASE): the pattern is written in lower case
SearchI(s, pat) == SearchFrom(Lower(s), pat, 1)

\* match.group(1), read from the subject string
Group(s, m) == SubSeq(s, m.gfrom, m.gto)

\* re.findall(pat, s): the groups of the non-overlapping matches, left to right.
\* The matching is done on `low` (s, or its lower case under re.IGNORECASE).
RECURSIVE FindAllFrom(_, _, _, _)
RECURSIVE FindAllAfter(_, _, _, _)
FindAllAfter(s, low, pat, m) ==
  IF ~m.found THEN <<>>
  ELSE <<Group(s, m)>> \o FindAllFrom(s, low, pat, m.end)

FindAllFrom(s, low, pat, start) == FindAllAfter(s, low, pat, SearchFrom(low, pat, start))

FindAll(s, pat) == FindAllFrom(s, s, pat, 1)
FindAllI(s, pat) == FindAllFrom(s, Lower(s), pat, 1)

\* [x for pat in pats for x in re.findall(pat, s, re.IGNORECASE)]
RECURSIVE FindAllOfEach(_, _, _)
FindAllOfEach(s, pats, i) ==
  IF i > Len(pats) THEN <<>>
  ELSE FindAllI(s, pats[i]) \o FindAllOfEach(s, pats, i + 1)

ws1 == Rep(Whitespace, 1, -1)
ws0 == Rep(Whitespace, 0, -1)
num == Rep(Digits, 1, -1)
word == Rep(WordChars, 1, -1)


(***************************************************************************)
(* Values of a field_updates dict: a str or an int.  A dict is the         *)
(* sequence of its items in insertion order.                               *)
(***************************************************************************)
StrVal(s) == [t |-> "str", s |-> s, n |-> 0]
IntVal(n) == [t |-> "int", s |-> <<>>, n |-> n]

HasKey(d, key) == \E i \in 1..Len(d) : d[i].k = key

\* d[key]
DictGet(d, key) == d[CHOOSE i \in 1..Len(d) : d[i].k = key].v

\* d[key] = v
DictSet(d, key, v) ==
  IF HasKey(d, key)
  THEN [i \in 1..Len(d) |-> IF d[i].k = key THEN [k |-> key, v |-> v] ELSE d[i]]
  ELSE Append(d, [k |-> key, v |-> v])

\* the first key of a keyword table (a dict key -> list of keywords, in insertion
\* order) one of whose keywords occurs in s; <<>> if there is none
FirstKeyword(s, table) ==
  LET hits == {i \in 1..Len(table) : ContainsAny(s, table[i].words)}
  IN  IF hits = {} THEN <<>> ELSE table[Min(hits)].key

\* the keys of a keyword table one of whose keywords occurs in s, in table order
RECURSIVE AllKeywords(_, _, _)
AllKeywords(s, table, i) ==
  IF i > Len(table) THEN <<>>
  ELSE (IF ContainsAny(s, table[i].words) THEN <<table[i].key>> ELSE <<>>)
       \o AllKeywords(s, table, i + 1)

(***************************************************************************)
(* NLPProcessor._extract_entities: its tables                              *)
(***************************************************************************)
time_keywords ==
  << <<"t","o","d","a","y">>, <<"t","o","m","o","r","r","o","w">>, <<"y","e","s","t","e","r","d","a","y">>, <<"t","h","i","s"," ","w","e","e","k">>, <<"l","a","s","t"," ","w","e","e","k">>, <<"n","e","x","t"," ","w","e","e","k">>,
     <<"t","h","i","s"," ","s","p","r","i","n","t">>, <<"c","u","r","r","e","n","t"," ","s","p","r","i","n","t">> >>

status_keywords ==
  << [key |-> <<"a","c","t","i","v","e">>,   words |-> << <<"a","c","t","i","v","e">>, <<"i","n"," ","p","r","o","g","r","e","s","s">>, <<"i","n","-","p","r","o","g","r","e","s","s">>, <<"w","o","r","k","i","n","g">>, <<"s","t","a","r","t","e","d">> >>],
     [key |-> <<"n","e","w">>,      words |-> << <<"n","e","w">>, <<"c","r","e","a","t","e","d">>, <<"a","s","s","i","g","n","e","d">> >>],
     [key |-> <<"r","e","s","o","l","v","e","d">>, words |-> << <<"r","e","s","o","l","v","e","d">>, <<"c","o","m","p","l","e","t","e","d">>, <<"d","o","n","e">>, <<"f","i","n","i","s","h","e","d">> >>],
     [key |-> <<"c","l","o","s","e","d">>,   words |-> << <<"c","l","o","s","e","d">>, <<"c","l","o","s","e","d">>, <<"f","i","n","i","s","h","e","d">> >>],
     [key |-> <<"b","l","o","c","k","e","d">>,  words |-> << <<"b","l","o","c","k","e","d">>, <<"w","a","i","t","i","n","g">>, <<"o","n"," ","h","o","l","d">>, <<"s","t","u","c","k">> >>] >>

\* "<type>-(\d+)"
IdDash(type) == Pat(<<Lit(type), Lit(<<"-">>), num>>, 3, 3)
\* "\[<type>-(\d+)\]"
IdBracket(type) == Pat(<<Lit(<<"[">>), Lit(type), Lit(<<"-">>), num, Lit(<<"]">>)>>, 4, 4)
\* "<type>\s+(\d+)"
IdSpace(type) == Pat(<<Lit(type), ws1, num>>, 3, 3)

task_id_patterns ==
  << IdDash(<<"t","a","s","k">>), IdDash(<<"s","t","o","r","y">>), IdDash(<<"b","u","g">>), IdDash(<<"e","p","i","c">>), IdDash(<<"r","e","q","u","i","r","e","m","e","n","t">>),
     IdBracket(<<"t","a","s","k">>), IdBracket(<<"s","t","o","r","y">>), IdBracket(<<"b","u","g">>), IdBracket(<<"e","p","i","c">>),
     IdBracket(<<"r","e","q","u","i","r","e","m","e","n","t">>),
     IdSpace(<<"t","a","s","k">>),
     Pat(<<Lit(<<"u","s","e","r">>), ws1, Lit(<<"s","t","o","r","y">>), ws1, num>>, 5, 5),
     IdSpace(<<"s","t","o","r","y">>), IdSpace(<<"b","u","g">>), IdSpace(<<"e","p","i","c">>), IdSpace(<<"r","e","q","u","i","r","e","m","e","n","t">>) >>

batch_update_pattern == <<"u","p","d","a","t","e"," ","f","o","l","l","o","w","i","n","g"," ","i","n","d","i","v","i","d","u","a","l"," ","t","a","s","k","s",":">>

field_patterns ==
  << [key |-> "start_date",        words |-> << <<"s","t","a","r","t"," ","d","a","t","e">>, <<"s","t","a","r","t","d","a","t","e">>, <<"s","t","a","r","t">> >>],
     [key |-> "finish_date",       words |-> << <<"f","i","n","i","s","h"," ","d","a","t","e">>, <<"f","i","n","i","s","h","d","a","t","e">>, <<"f","i","n","i","s","h">>, <<"e","n","d"," ","d","a","t","e">>, <<"e","n","d","d","a","t","e">> >>],
     [key |-> "status",            words |-> << <<"s","t","a","t","u","s">>, <<"s","t","a","t","e">> >>],
     [key |-> "priority",          words |-> << <<"p","r","i","o","r","i","t","y">> >>],
     [key |-> "title",             words |-> << <<"t","i","t","l","e">>, <<"n","a","m","e">> >>],
     [key |-> "description",       words |-> << <<"d","e","s","c","r","i","p","t","i","o","n">>, <<"d","e","s","c">> >>],
     [key |-> "assigned_to",       words |-> << <<"a","s","s","i","g","n","e","d"," ","t","o">>, <<"a","s","s","i","g","n","e","d">>, <<"a","s","s","i","g","n","e","e">> >>],
     [key |-> "remaining",         words |-> << <<"r","e","m","a","i","n","i","n","g">> >>],
     [key |-> "completed",         words |-> << <<"c","o","m","p","l","e","t","e","d">> >>],
     [key |-> "original_estimate", words |-> << <<"o","r","i","g","i","n","a","l"," ","e","s","t","i","m","a","t","e">>, <<"o","r","i","g","i","n","a","l","e","s","t","i","m","a","t","e">>, <<"e","s","t","i","m","a","t","e">> >>] >>

\* (\d{1,2}/\d{1,2}/\d{4}), (\d{4}-\d{1,2}-\d{1,2}), (\d{1,2}-\d{1,2}-\d{4})
date_patterns ==
  << Pat(<<Rep(Digits, 1, 2), Lit(<<"/">>), Rep(Digits, 1, 2), Lit(<<"/">>), Rep(Digits, 4, 4)>>, 1, 5),
     Pat(<<Rep(Digits, 4, 4), Lit(<<"-">>), Rep(Digits, 1, 2), Lit(<<"-">>), Rep(Digits, 1, 2)>>, 1, 5),
     Pat(<<Rep(Digits, 1, 2), Lit(<<"-">>), Rep(Digits, 1, 2), Lit(<<"-">>), Rep(Digits, 4, 4)>>, 1, 5) >>

\* "<field>\s+to\s+(\d+)", "<field>\s+(\d+)", "<field>\s*->\s*(\d+)"
FieldTo(field) == Pat(<<Lit(field), ws1, Lit(<<"t","o">>), ws1, num>>, 5, 5)
FieldNum(field) == Pat(<<Lit(field), ws1, num>>, 3, 3)
FieldArrow(field) == Pat(<<Lit(field), ws0, Lit(<<"-",">">>), ws0, num>>, 5, 5)

remaining_patterns == << FieldTo(<<"r","e","m","a","i","n","i","n","g">>), FieldNum(<<"r","e","m","a","i","n","i","n","g">>) >>

completed_patterns == << FieldTo(<<"c","o","m","p","l","e","t","e","d">>), FieldNum(<<"c","o","m","p","l","e","t","e","d">>) >>

original_estimate_patterns ==
  << FieldTo(<<"o","r","i","g","i","n","a","l"," ","e","s","t","i","m","a","t","e">>), FieldNum(<<"o","r","i","g","i","n","a","l"," ","e","s","t","i","m","a","t","e">>), FieldArrow(<<"o","r","i","g","i","n","a","l"," ","e","s","t","i","m","a","t","e">>),
     FieldTo(<<"e","s","t","i","m","a","t","e">>), FieldNum(<<"e","s","t","i","m","a","t","e">>), FieldArrow(<<"e","s","t","i","m","a","t","e">>),
     FieldTo(<<"f","o","r"," ","o","r","i","g","i","n","a","l"," ","e","s","t","i","m","a","t","e">>), FieldNum(<<"f","o","r"," ","o","r","i","g","i","n","a","l"," ","e","s","t","i","m","a","t","e">>),
     FieldArrow(<<"f","o","r"," ","o","r","i","g","i","n","a","l"," ","e","s","t","i","m","a","t","e">>) >>

\* ['\"]([^'\"]+)['\"]
Quoted == <<Rep(Quotes, 1, 1), RepNot(Quotes, 1, -1), Rep(Quotes, 1, 1)>>

assignee_patterns ==
  << Pat(<<Lit(<<"a","s","s","i","g","n","e","e">>), ws0, Lit(<<"-",">">>), ws0>> \o Quoted, 6, 6),
     Pat(<<Lit(<<"a","s","s","i","g","n","e","e">>), ws1, Lit(<<"t","o">>), ws1>> \o Quoted, 6, 6),
     Pat(<<Lit(<<"a","s","s","i","g","n","e","d">>), ws1, Lit(<<"t","o">>), ws1>> \o Quoted, 6, 6),
     Pat(<<Lit(<<"a","s","s","i","g","n">>), ws1, Lit(<<"t","o">>), ws1>> \o Quoted, 6, 6) >>

(***************************************************************************)
(* NLPProcessor._extract_batch_updates                                     *)
(***************************************************************************)
\* task\s+(\d+)\s*->
batch_task_pattern == Pat(<<Lit(<<"t","a","s","k">>), ws1, num, ws0, Lit(<<"-",">">>)>>, 3, 3)

\* start date\s*->\s*(\d{1,2}/\d{1,2}/\d{4}), and the same for finish date
BatchDate(field) ==
  Pat(<<Lit(field), ws0, Lit(<<"-",">">>), ws0,
        Rep(Digits, 1, 2), Lit(<<"/">>), Rep(Digits, 1, 2), Lit(<<"/">>), Rep(Digits, 4, 4)>>, 5, 9)

\* status\s*->\s*(\w+)
batch_status_pattern == Pat(<<Lit(<<"s","t","a","t","u","s">>), ws0, Lit(<<"-",">">>), ws0, word>>, 5, 5)

\* the field_updates of one line (lines 528-544)
\* if <match>: field_updates[key] = <match>.group(1)
SetGroup(field_updates, key, line, m) ==
  IF m.found THEN DictSet(field_updates, key, StrVal(Group(line, m))) ELSE field_updates

\* if status_match: field_updates['status'] = status_match.group(1).lower()
SetLowerGroup(field_updates, key, line, m) ==
  IF m.found THEN DictSet(field_updates, key, StrVal(Lower(Group(line, m)))) ELSE field_updates

batch_field_updates(line) ==
  SetLowerGroup(
    SetGroup(
      SetGroup(<<>>, "start_date", line, SearchI(line, BatchDate(<<"s","t","a","r","t"," ","d","a","t","e">>))),
      "finish_date", line, SearchI(line, BatchDate(<<"f","i","n","i","s","h"," ","d","a","t","e">>))),
    "status", line, SearchI(line, batch_status_pattern))

\* one pass of the loop over lines[1:]: acc = [updates, invalid_lines]
\* a line whose task pattern matched: acc after it
batch_update(task_id, field_updates, acc) ==
  IF ~IsDigit(task_id) THEN [acc EXCEPT !.invalid_lines = @ + 1]
  ELSE IF Len(field_updates) > 0
  THEN [acc EXCEPT !.updates = Append(@, [task_id |-> task_id, field_updates |-> field_updates])]
  ELSE [acc EXCEPT !.invalid_lines = @ + 1]

\* one stripped line: acc after it
batch_line(line, task_match, acc) ==
  IF Len(line) = 0 THEN acc
  ELSE IF ~task_match.found THEN [acc EXCEPT !.invalid_lines = @ + 1]
  ELSE batch_update(Group(line, task_match), batch_field_updates(line), acc)

RECURSIVE batch_lines(_, _, _)
batch_lines(lines, i, acc) ==
  IF i > Len(lines) THEN acc
  ELSE batch_lines(lines, i + 1,
         batch_line(Strip(lines[i]), SearchI(Strip(lines[i]), batch_task_pattern), acc))

\* the list of updates, or none = TRUE for the None the code returns
updates_or_none(r) ==
  IF r.invalid_lines > 0 THEN [none |-> TRUE, updates |-> <<>>]
  ELSE [none |-> FALSE, updates |-> r.updates]

extract_batch_updates(user_input) ==
  updates_or_none(batch_lines(SplitLines(user_input), 2, [updates |-> <<>>, invalid_lines |-> 0]))

(***************************************************************************)
(* NLPProcessor._extract_entities.  The keys sprint, person, context,      *)
(* priority and task_type, which it adds last and which no update reads,   *)
(* are left out.  has_* tells whether the dict has the key.                *)
(***************************************************************************)
EmptyEntities ==
  [time_period |-> <<>>, status |-> <<>>,
   has_batch_updates |-> FALSE, batch_updates |-> <<>>, batch_update_error |-> FALSE,
   task_id |-> <<>>, has_field_names |-> FALSE, field_names |-> <<>>,
   date_values |-> <<>>, remaining_values |-> <<>>, completed_values |-> <<>>,
   original_estimate_values |-> <<>>, assignee_values |-> <<>>, status_values |-> <<>>]

\* the group of the first pattern of pats that matches s under re.IGNORECASE
FirstGroupI(s, pats) ==
  LET hits == {i \in 1..Len(pats) : SearchI(s, pats[i]).found}
  IN  IF hits = {} THEN <<>> ELSE Group(s, SearchI(s, pats[Min(hits)]))

\* the findall of the first pattern of pats that finds anything in s
FirstFindAll(s, pats) ==
  LET hits == {i \in 1..Len(pats) : Search(s, pats[i]).found}
  IN  IF hits = {} THEN <<>> ELSE FindAll(s, pats[Min(hits)])

extract_entities(user_input) ==
  LET user_input_lower == Lower(user_input)
      e1 == [EmptyEntities EXCEPT
               !.time_period = FirstKeyword(user_input_lower,
                                 [i \in 1..Len(time_keywords) |->
                                    [key |-> time_keywords[i], words |-> <<time_keywords[i]>>]]),
               !.status = FirstKeyword(user_input_lower, status_keywords)]
      batch_updates == extract_batch_updates(user_input)
      field_names == AllKeywords(user_input_lower, field_patterns, 1)
  IN  IF Contains(user_input_lower, batch_update_pattern)
      THEN IF ~batch_updates.none
           THEN [e1 EXCEPT !.has_batch_updates = TRUE, !.batch_updates = batch_updates.updates]
           ELSE [e1 EXCEPT !.batch_update_error = TRUE]
      ELSE [e1 EXCEPT
              !.task_id = FirstGroupI(user_input, task_id_patterns),
              !.has_field_names = Len(field_names) > 0,
              !.field_names = field_names,
              !.date_values = FirstFindAll(user_input, date_patterns),
              !.remaining_values = FindAllOfEach(user_input, remaining_patterns, 1),
              !.completed_values = FindAllOfEach(user_input, completed_patterns, 1),
              !.original_estimate_values = FindAllOfEach(user_input, original_estimate_patterns, 1),
              !.assignee_values = FindAllOfEach(user_input, assignee_patterns, 1),
              !.status_values = AllKeywords(user_input_lower, status_keywords, 1)]

(***************************************************************************)
(* The input texts: single queries "<verb><work item><rest>" and batches   *)
(* of up to MaxBatchLines lines under the batch header.                    *)
(***************************************************************************)
MaxBatchLines == 2
MaxTurns == 1

WorkItems ==
  { <<"T","A","S","K","-","1","2","3","4","5">>, <<"t","a","s","k"," ","7">>, <<"[","S","T","O","R","Y","-","4","2","]">>, <<"u","s","e","r"," ","s","t","o","r","y"," ","8">>, <<"T","A","S","K","-","0">>,
    <<"T","A","S","K">>, <<"T","A","S","K","-","a","b","c">>, <<"a","l","l"," ","t","a","s","k","s">>, <<"m","y"," ","t","a","s","k","s">>, <<"e","v","e","r","y","t","h","i","n","g">>, <<>> }

Rests ==
  { <<" ","S","t","a","t","u","s"," ","-",">"," ","A","c","t","i","v","e">>, <<" ","S","t","a","t","u","s"," ","-",">"," ","R","e","s","o","l","v","e","d">>, <<" ","S","t","a","t","u","s"," ","-",">"," ","A","p","p","r","o","v","e","d">>,
    <<" ","S","t","a","r","t"," ","D","a","t","e"," ","-",">"," ","0","8","/","1","1","/","2","0","2","5">>,
    <<" ","F","i","n","i","s","h"," ","D","a","t","e"," ","-",">"," ","0","8","/","0","7","/","2","0","2","5"," ","S","t","a","r","t"," ","D","a","t","e"," ","-",">"," ","0","8","/","0","6","/","2","0","2","5">>, <<" ","F","i","n","i","s","h"," ","D","a","t","e"," ","-",">"," ","2","0","2","5","-","0","8","-","1","2">>,
    <<" ","r","e","m","a","i","n","i","n","g"," ","t","o"," ","5"," ","c","o","m","p","l","e","t","e","d"," ","3">>, <<","," ","f","o","r"," ","o","r","i","g","i","n","a","l"," ","e","s","t","i","m","a","t","e"," ","t","o"," ","1","3">>,
    <<" ","a","s","s","i","g","n","e","e"," ","-",">"," ","'","A","l","'">>, <<" ","t","o"," ","1","3","/","4","5","/","2","0","2","5">>, <<" ","P","r","i","o","r","i","t","y"," ","-",">"," ","2"," ","b","y"," ","0","8","/","1","1","/","2","0","2","5">>,
    <<" ","S","t","a","t","u","s"," ","-",">"," ","R","e","s","o","l","v","e","d"," ","F","i","n","i","s","h"," ","D","a","t","e"," ","-",">"," ","0","8","/","1","1","/","2","0","2","5">>, <<>> }

\* "reset" has the update keyword "set" in it; "Show" has none
OtherVerbs == { <<"P","l","e","a","s","e"," ","r","e","s","e","t"," ">>, <<"M","o","d","i","f","y"," ">>, <<"C","h","a","n","g","e"," ">>, <<"E","d","i","t"," ">>, <<"S","h","o","w"," ">> }
FewWorkItems == { <<"T","A","S","K","-","1","2","3","4","5">>, <<"m","y"," ","t","a","s","k","s">> }
FewRests == { <<" ","S","t","a","t","u","s"," ","-",">"," ","A","c","t","i","v","e">>, <<>> }

SingleTexts ==
  { <<"U","p","d","a","t","e"," ">> \o w \o r : w \in WorkItems, r \in Rests } \cup
  { v \o w \o r : v \in OtherVerbs, w \in FewWorkItems, r \in FewRests }

OtherTexts ==
  { <<"w","h","a","t"," ","m","e","e","t","i","n","g","s"," ","d","o"," ","I"," ","h","a","v","e"," ","t","o","d","a","y">>, <<"l","i","s","t"," ","m","y"," ","p","u","l","l"," ","r","e","q","u","e","s","t","s">>, <<"f","i","l","l"," ","m","y"," ","t","i","m","e","s","h","e","e","t">>,
    <<"s","u","m","m","a","r","i","z","e"," ","m","y"," ","a","c","t","i","v","i","t","y">>, <<"h","e","l","l","o">> }

BatchHeader == <<"U","p","d","a","t","e"," ","f","o","l","l","o","w","i","n","g"," ","i","n","d","i","v","i","d","u","a","l"," ","t","a","s","k","s",":">>

BatchLines ==
  { <<"T","A","S","K"," ","5","1","3","1","1"," ","-",">"," ","S","t","a","r","t"," ","D","a","t","e"," ","-",">"," ","0","8","/","0","8","/","2","0","2","5"," ","F","i","n","i","s","h"," ","D","a","t","e"," ","-",">"," ","0","8","/","1","1","/","2","0","2","5">>,
    <<"t","a","s","k"," ","5","1","3","1","2"," ","-",">"," ","S","t","a","t","u","s"," ","-",">"," ","R","e","s","o","l","v","e","d">>,
    <<"T","A","S","K"," "," ","-",">"," ","S","t","a","r","t"," ","D","a","t","e"," ","-",">"," ","0","8","/","1","1","/","2","0","2","5">>,
    <<"T","A","S","K"," ","a","b","c"," ","-",">"," ","S","t","a","t","u","s"," ","-",">"," ","A","c","t","i","v","e">>,
    <<"T","A","S","K"," ","5","1","3","1","0"," ","-",">"," ","P","r","i","o","r","i","t","y"," ","-",">"," ","2">>,
    <<"T","A","S","K"," ","5","1","3","1","3"," ","-",">"," ","P","r","i","o","r","i","t","y"," ","-",">"," ","2"," ","S","t","a","r","t"," ","D","a","t","e"," ","-",">"," ","0","8","/","1","1","/","2","0","2","5">>,
    <<>> }

RECURSIVE JoinLines(_)
JoinLines(lines) ==
  IF Len(lines) = 0 THEN <<>> ELSE <<"\n">> \o lines[1] \o JoinLines(Tail(lines))

BatchTexts ==
  { BatchHeader \o JoinLines(lines) :
      lines \in UNION { [1..n -> BatchLines] : n \in 0..MaxBatchLines } }

InputTexts == SingleTexts \cup OtherTexts \cup BatchTexts

(***************************************************************************)
(* NLPProcessor: intent classification.  A confidence is written in        *)
(* tenths (8 is 0.8).  classifier is what the call of the external         *)
(* classifier does in this query: "error" (no API key, or the call         *)
(* fails), or the text it answers.                                         *)
(***************************************************************************)
update_keywords == << <<"u","p","d","a","t","e">>, <<"m","o","d","i","f","y">>, <<"c","h","a","n","g","e">>, <<"e","d","i","t">>, <<"s","e","t">> >>

\* r"task-\d+" and the other patterns of has_task_id
IdSeen(type) == Pat(<<Lit(type), Lit(<<"-">>), num>>, 1, 3)
IdSeenBracket(type) == Pat(<<Lit(<<"[">>), Lit(type), Lit(<<"-">>), num, Lit(<<"]">>)>>, 1, 5)

has_task_id_patterns ==
  << IdSeen(<<"t","a","s","k">>), IdSeen(<<"s","t","o","r","y">>), IdSeen(<<"b","u","g">>), IdSeen(<<"e","p","i","c">>), IdSeen(<<"r","e","q","u","i","r","e","m","e","n","t">>),
     IdSeenBracket(<<"t","a","s","k">>), IdSeenBracket(<<"s","t","o","r","y">>), IdSeenBracket(<<"b","u","g">>),
     IdSeenBracket(<<"e","p","i","c">>), IdSeenBracket(<<"r","e","q","u","i","r","e","m","e","n","t">>) >>

has_update_keyword(user_input) == ContainsAny(Lower(user_input), update_keywords)

has_task_id(user_input) ==
  \E i \in 1..Len(has_task_id_patterns) : Search(Lower(user_input), has_task_id_patterns[i]).found

Intent(name, confidence, entities) ==
  [name |-> name, confidence |-> confidence, entities |-> entities]

fallback_keywords ==
  << [key |-> "timesheet",     words |-> << <<"t","i","m","e","s","h","e","e","t">>, <<"t","i","m","e">>, <<"f","i","l","l">>, <<"s","u","b","m","i","t">> >>],
     [key |-> "tasks",         words |-> << <<"t","a","s","k">>, <<"w","o","r","k">>, <<"i","t","e","m">>, <<"s","p","r","i","n","t">> >>],
     [key |-> "meetings",      words |-> << <<"m","e","e","t","i","n","g">>, <<"c","a","l","e","n","d","a","r">>, <<"s","c","h","e","d","u","l","e">>, <<"c","a","l","l">> >>],
     [key |-> "pull_requests", words |-> << <<"p","u","l","l"," ","r","e","q","u","e","s","t">>, <<"p","r">>, <<"r","e","v","i","e","w">>, <<"c","o","d","e">> >>],
     [key |-> "summary",       words |-> << <<"s","u","m","m","a","r","y">>, <<"r","e","p","o","r","t">>, <<"a","c","t","i","v","i","t","y">> >>] >>

\* a fallback that returns the last group that matches
fallback_intent_classification_last_group(user_input) ==
  LET user_input_lower == Lower(user_input)
      hits == {i \in 1..Len(fallback_keywords) :
                 ContainsAny(user_input_lower, fallback_keywords[i].words)}
  IN  IF has_update_keyword(user_input)
      THEN IF has_task_id(user_input)
           THEN Intent("task_update", 8, extract_entities(user_input))
           ELSE Intent("task_update", 6, extract_entities(user_input))
      ELSE IF hits # {}
           THEN Intent(fallback_keywords[CHOOSE i \in hits : \A j \in hits : i >= j].key,
                       6, EmptyEntities)
           ELSE Intent("tasks", 3, EmptyEntities)

\* _fallback_intent_classification
fallback_intent_classification(user_input) ==
  LET user_input_lower == Lower(user_input)
      hits == {i \in 1..Len(fallback_keywords) :
                 ContainsAny(user_input_lower, fallback_keywords[i].words)}
  IN  IF has_update_keyword(user_input)
      THEN IF has_task_id(user_input)
           THEN Intent("task_update", 8, extract_entities(user_input))
           ELSE Intent("task_update", 6, extract_entities(user_input))
      ELSE IF hits # {}
           THEN Intent(fallback_keywords[CHOOSE i \in hits : \A j \in hits : i <= j].key,
                       6, EmptyEntities)
           ELSE Intent("tasks", 3, EmptyEntities)

intent_mapping ==
  << [key |-> <<"t","i","m","e","s","h","e","e","t">>,    intent |-> "timesheet"],
     [key |-> <<"t","a","s","k">>,         intent |-> "tasks"],
     [key |-> <<"t","a","s","k"," ","u","p","d","a","t","e">>,  intent |-> "task_update"],
     [key |-> <<"u","p","d","a","t","e">>,       intent |-> "task_update"],
     [key |-> <<"m","o","d","i","f","y">>,       intent |-> "task_update"],
     [key |-> <<"c","h","a","n","g","e">>,       intent |-> "task_update"],
     [key |-> <<"m","e","e","t","i","n","g">>,      intent |-> "meetings"],
     [key |-> <<"c","a","l","e","n","d","a","r">>,     intent |-> "meetings"],
     [key |-> <<"p","u","l","l"," ","r","e","q","u","e","s","t">>, intent |-> "pull_requests"],
     [key |-> <<"p","r">>,           intent |-> "pull_requests"],
     [key |-> <<"s","u","m","m","a","r","y">>,      intent |-> "summary"],
     [key |-> <<"r","e","p","o","r","t">>,       intent |-> "summary"] >>

parse_intent_response(response, user_input) ==
  LET intent_name == Strip(Lower(response))
      hits == {i \in 1..Len(intent_mapping) : Contains(intent_name, intent_mapping[i].key)}
  IN  IF hits # {}
      THEN Intent(intent_mapping[CHOOSE i \in hits : \A j \in hits : i <= j].intent,
                  8, extract_entities(user_input))
      ELSE Intent("tasks", 5, extract_entities(user_input))

\* what the external classifier may do when it is called
ClassifierOutcomes ==
  { [error |-> TRUE, text |-> <<>>] } \cup
  { [error |-> FALSE, text |-> r] :
      r \in { <<"t","a","s","k","s">>, <<"t","a","s","k","_","u","p","d","a","t","e">>, <<"u","p","d","a","t","e">>, <<"M","e","e","t","i","n","g","s">>, <<"I"," ","a","m"," ","n","o","t"," ","s","u","r","e">> } }

\* a classification that calls the external classifier for every text
classify_intent_classifier_first(user_input, classifier) ==
  IF classifier.error
  THEN [intent |-> fallback_intent_classification(user_input), openai_called |-> TRUE]
  ELSE [intent |-> parse_intent_response(classifier.text, user_input), openai_called |-> TRUE]

\* the Intent, and whether the external classifier was called
classify_intent(user_input, classifier) ==
  IF has_update_keyword(user_input)
  THEN [intent |-> fallback_intent_classification(user_input), openai_called |-> FALSE]
  ELSE IF classifier.error
  THEN [intent |-> fallback_intent_classification(user_input), openai_called |-> TRUE]
  ELSE [intent |-> parse_intent_response(classifier.text, user_input), openai_called |-> TRUE]

(***************************************************************************)
(* AzureDevOpsTool.update_work_item                                        *)
(***************************************************************************)
field_mapping ==
  << [key |-> "start_date",        path |-> "Microsoft.VSTS.Scheduling.StartDate"],
     [key |-> "finish_date",       path |-> "Microsoft.VSTS.Scheduling.FinishDate"],
     [key |-> "status",            path |-> "System.State"],
     [key |-> "priority",          path |-> "Microsoft.VSTS.Common.Priority"],
     [key |-> "title",             path |-> "System.Title"],
     [key |-> "description",       path |-> "System.Description"],
     [key |-> "assigned_to",       path |-> "System.AssignedTo"],
     [key |-> "remaining",         path |-> "Microsoft.VSTS.Scheduling.RemainingWork"],
     [key |-> "completed",         path |-> "Microsoft.VSTS.Scheduling.CompletedWork"],
     [key |-> "original_estimate", path |-> "Microsoft.VSTS.Scheduling.OriginalEstimate"] >>

\* field_mapping.get(field_name, field_name)
azure_field(field_name) ==
  IF \E i \in 1..Len(field_mapping) : field_mapping[i].key = field_name
  THEN field_mapping[CHOOSE i \in 1..Len(field_mapping) : field_mapping[i].key = field_name].path
  ELSE field_name

valid_states_by_type ==
  << [key |-> <<"T","A","S","K">>,       states |-> << <<"N","e","w">>, <<"A","c","t","i","v","e">>, <<"C","l","o","s","e","d">>, <<"R","e","m","o","v","e","d">> >>],
     [key |-> <<"U","S","E","R"," ","S","T","O","R","Y">>, states |-> << <<"N","e","w">>, <<"A","p","p","r","o","v","e","d">>, <<"A","c","t","i","v","e">>, <<"R","e","s","o","l","v","e","d">>, <<"C","l","o","s","e","d">>,
                                           <<"R","e","m","o","v","e","d">> >>] >>

status_mapping ==
  << [key |-> <<"a","c","t","i","v","e">>,   value |-> <<"A","c","t","i","v","e">>],
     [key |-> <<"n","e","w">>,      value |-> <<"N","e","w">>],
     [key |-> <<"a","p","p","r","o","v","e","d">>, value |-> <<"A","p","p","r","o","v","e","d">>],
     [key |-> <<"r","e","s","o","l","v","e","d">>, value |-> <<"R","e","s","o","l","v","e","d">>],
     [key |-> <<"c","l","o","s","e","d">>,   value |-> <<"C","l","o","s","e","d">>],
     [key |-> <<"r","e","m","o","v","e","d">>,  value |-> <<"R","e","m","o","v","e","d">>],
     [key |-> <<"b","l","o","c","k","e","d">>,  value |-> <<"A","c","t","i","v","e">>] >>

\* table.get(key, default) for a table of [key, value]
TableGet(table, key, default) ==
  IF \E i \in 1..Len(table) : table[i].key = key
  THEN table[CHOOSE i \in 1..Len(table) : table[i].key = key].value
  ELSE default

task_fallback_mapping ==
  << [key |-> <<"r","e","s","o","l","v","e","d">>, value |-> <<"A","c","t","i","v","e">>],
     [key |-> <<"a","p","p","r","o","v","e","d">>, value |-> <<"A","c","t","i","v","e">>],
     [key |-> <<"c","l","o","s","e","d">>,   value |-> <<"A","c","t","i","v","e">>],
     [key |-> <<"r","e","m","o","v","e","d">>,  value |-> <<"A","c","t","i","v","e">>] >>

user_story_fallback_mapping == << [key |-> <<"r","e","m","o","v","e","d">>, value |-> <<"A","c","t","i","v","e">>] >>

IsKnownType(work_item_type) ==
  \E i \in 1..Len(valid_states_by_type) : valid_states_by_type[i].key = work_item_type

ValidStates(work_item_type) ==
  LET row == valid_states_by_type[CHOOSE i \in 1..Len(valid_states_by_type) :
                                    valid_states_by_type[i].key = work_item_type]
  IN  {row.states[i] : i \in 1..Len(row.states)}

\* the synonym mapping alone, whatever the type
map_status_unchecked(new_value, work_item_type) ==
  TableGet(status_mapping, Lower(new_value), new_value)

\* lines 419-473: the status value written into the patch operation
map_status(new_value, work_item_type) ==
  LET mapped_value == TableGet(status_mapping, Lower(new_value), new_value)
  IN  IF Len(work_item_type) > 0 /\ IsKnownType(work_item_type)
      THEN IF mapped_value \notin ValidStates(work_item_type)
           THEN IF work_item_type = <<"T","A","S","K">>
                THEN TableGet(task_fallback_mapping, Lower(mapped_value), <<"A","c","t","i","v","e">>)
                ELSE TableGet(user_story_fallback_mapping, Lower(mapped_value), <<"A","c","t","i","v","e">>)
           ELSE mapped_value
      ELSE mapped_value

DaysInMonth(y, m) ==
  IF m = 2 THEN (IF (y % 4 = 0 /\ y % 100 # 0) \/ y % 400 = 0 THEN 29 ELSE 28)
  ELSE IF m \in {4, 6, 9, 11} THEN 30 ELSE 31

\* str(n).zfill(width)
RECURSIVE ZeroPad(_, _)
ZeroPad(n, width) ==
  IF width = 0 THEN <<>>
  ELSE ZeroPad(n \div 10, width - 1) \o <<CHOOSE c \in Digits : DigitValue[c] = n % 10>>

\* the three "/"-separated parts of s, or <<>> if s has not exactly two "/"
SlashParts(s) ==
  LET sl == {i \in 1..Len(s) : s[i] = "/"}
  IN  IF Cardinality(sl) # 2 THEN <<>>
      ELSE LET a == CHOOSE i \in sl : \A j \in sl : i <= j
               b == CHOOSE i \in sl : \A j \in sl : j <= i
           IN  <<SubSeq(s, 1, a - 1), SubSeq(s, a + 1, b - 1), SubSeq(s, b + 1, Len(s))>>

\* the digits of a %d field: strptime also takes a day written " 5"
DayDigits(part) ==
  IF Len(part) = 2 /\ part[1] = " " /\ part[2] \in Digits \ {"0"} THEN Tail(part) ELSE part

\* datetime.strptime(s, "%m/%d/%Y") succeeds: one or two digits for the month and
\* for the day, four for the year, and the date exists
PartsAreDate(p) ==
  /\ Len(p) = 3
  /\ IsDigit(p[1]) /\ Len(p[1]) <= 2
  /\ IsDigit(DayDigits(p[2])) /\ Len(p[2]) <= 2
  /\ IsDigit(p[3]) /\ Len(p[3]) = 4
  /\ ParseInt(p[3]) >= 1
  /\ ParseInt(p[1]) \in 1..12
  /\ ParseInt(DayDigits(p[2])) \in 1..DaysInMonth(ParseInt(p[3]), ParseInt(p[1]))

strptime_ok(s) == PartsAreDate(SlashParts(s))

\* a conversion that writes the day before the month
format_date_day_first(new_value) ==
  IF Contains(new_value, <<"/">>) /\ strptime_ok(new_value)
  THEN LET p == SlashParts(new_value)
       IN  ZeroPad(ParseInt(p[3]), 4) \o <<"-">> \o ZeroPad(ParseInt(DayDigits(p[2])), 2) \o <<"-">>
             \o ZeroPad(ParseInt(p[1]), 2)
  ELSE new_value

\* lines 476-484: the date written into the patch operation.  strftime("%Y")
\* writes four digits for the years from 1000 on, the years the inputs have.
format_date(new_value) ==
  IF Contains(new_value, <<"/">>) /\ strptime_ok(new_value)
  THEN LET p == SlashParts(new_value)
       IN  ZeroPad(ParseInt(p[3]), 4) \o <<"-">> \o ZeroPad(ParseInt(p[1]), 2) \o <<"-">>
             \o ZeroPad(ParseInt(DayDigits(p[2])), 2)
  ELSE new_value

\* the value of one patch operation
operation_value(field_name, new_value, work_item_type) ==
  IF field_name = "status" THEN StrVal(map_status(new_value.s, work_item_type))
  ELSE IF field_name \in {"start_date", "finish_date"} /\ new_value.t = "str" /\ Len(new_value.s) > 0
  THEN StrVal(format_date(new_value.s))
  ELSE new_value

\* the operations list: one {"op": "add", "path", "value"} per item of field_updates
operations(field_updates, work_item_type) ==
  [i \in 1..Len(field_updates) |->
     [op |-> "add", path |-> azure_field(field_updates[i].k),
      value |-> operation_value(field_updates[i].k, field_updates[i].v, work_item_type)]]

\* a call that writes the legalized status and the converted dates back into the
\* mapping it was given
field_updates_after_call_normalised(field_updates, work_item_type) ==
  [i \in 1..Len(field_updates) |->
     [k |-> field_updates[i].k,
      v |-> operation_value(field_updates[i].k, field_updates[i].v, work_item_type)]]

\* the caller's field_updates dict once update_work_item has run: the loop of lines
\* 399-490 iterates over its items, binds the legalized or converted value to the
\* local new_value and appends it to operations; nothing is assigned into the dict
field_updates_after_call(field_updates, work_item_type) == field_updates

\* What the backend does in one call: lookup is the answer to the type lookup
\* ("error" for an exception or a status other than 200, else the
\* System.WorkItemType it returns), patch_ok whether the PATCH answers 200 or 201.
BackendAnswers ==
  { [lookup |-> l, patch_ok |-> ok] :
      l \in { [error |-> TRUE, type |-> <<>>], [error |-> FALSE, type |-> <<"T","a","s","k">>],
              [error |-> FALSE, type |-> <<"U","s","e","r"," ","S","t","o","r","y">>], [error |-> FALSE, type |-> <<"B","u","g">>] },
      ok \in BOOLEAN }

\* str(e) of the exception update_work_item raises when the PATCH is refused
\* ("Work item update failed: <status> - <text>")
update_failed == "Work item update failed"

\* an update that a failed type lookup aborts: no patch is sent and the call raises
update_work_item_lookup_aborts(work_item_id, field_updates, backend) ==
  LET looked_up == HasKey(field_updates, "status")
      work_item_type ==
        IF looked_up /\ ~backend.lookup.error THEN Upper(backend.lookup.type) ELSE <<>>
      aborted == looked_up /\ backend.lookup.error
  IN  [work_item_id |-> work_item_id, field_updates |-> field_updates,
       looked_up |-> looked_up, work_item_type |-> work_item_type,
       operations |-> IF aborted THEN <<>> ELSE operations(field_updates, work_item_type),
       ok |-> backend.patch_ok /\ ~aborted,
       error |-> IF backend.patch_ok /\ ~aborted THEN "" ELSE update_failed]

\* the call as the backend sees it, and whether it returned (ok) or raised (error
\* is then the text of the exception)
update_work_item(work_item_id, field_updates, backend) ==
  LET looked_up == HasKey(field_updates, "status")
      work_item_type ==
        IF looked_up /\ ~backend.lookup.error THEN Upper(backend.lookup.type) ELSE <<>>
  IN  [work_item_id |-> work_item_id, field_updates |-> field_updates,
       looked_up |-> looked_up, work_item_type |-> work_item_type,
       operations |-> operations(field_updates, work_item_type),
       ok |-> backend.patch_ok,
       error |-> IF backend.patch_ok THEN "" ELSE update_failed]

(***************************************************************************)
(* AgentOrchestrator.  A message is the template the code formats and the  *)
(* values it puts in; a tool result is {success, message}.                 *)
(***************************************************************************)
Message(kind) ==
  [kind |-> kind, task_id |-> <<>>, fields |-> <<>>, error |-> "",
   success_count |-> 0, failed_count |-> 0, succeeded |-> <<>>, failed |-> <<>>]

ToolResult(success, message) == [success |-> success, message |-> message]

select_tool(intent) ==
  CASE intent = "timesheet" -> "osi_one"
    [] intent = "tasks" -> "azure_devops"
    [] intent = "task_update" -> "azure_devops"
    [] intent = "pull_requests" -> "azure_devops"
    [] intent = "meetings" -> "teams"
    [] intent = "summary" -> "aggregator"
    [] OTHER -> "azure_devops"

\* the checks without the one on a missing task_id
validate_without_id_check(entities) ==
  IF entities.batch_update_error THEN "malformed_batch"
  ELSE IF Len(entities.batch_updates) > 0 THEN "batch"
  ELSE "single"

\* lines 239-294: what the checks on a task_update decide
validate(entities) ==
  IF entities.batch_update_error THEN "malformed_batch"
  ELSE IF Len(entities.batch_updates) > 0 THEN "batch"
  ELSE IF Len(entities.task_id) = 0 THEN "missing_id"
  ELSE IF ~IsDigit(entities.task_id) THEN "invalid_id_format"
  ELSE "single"

\* entities.get("field_names", [entities.get("field_name")])
field_names_of(entities) ==
  IF entities.has_field_names THEN entities.field_names ELSE <<"None">>

InSeq(x, seq) == \E i \in 1..Len(seq) : seq[i] = x

\* lines 299-303: for i, field_name in enumerate(field_names)
RECURSIVE zip_dates(_, _, _, _)
zip_dates(field_names, date_values, i, field_updates) ==
  IF i > Len(field_names) \/ i > Len(date_values) THEN field_updates
  ELSE zip_dates(field_names, date_values, i + 1,
                 DictSet(field_updates, field_names[i], StrVal(date_values[i])))

\* lines 305-309: the status
set_status(field_updates, field_names, entities) ==
  IF InSeq("status", field_names) /\ Len(entities.status_values) > 0
  THEN DictSet(field_updates, "status", StrVal(entities.status_values[1]))
  ELSE IF Len(entities.status) > 0
  THEN DictSet(field_updates, "status", StrVal(entities.status))
  ELSE field_updates

\* if "<key>" in field_names and <values>: field_updates[key] = <value>
set_value(field_updates, field_names, key, values, value) ==
  IF InSeq(key, field_names) /\ Len(values) > 0
  THEN DictSet(field_updates, key, value)
  ELSE field_updates

\* lines 296-325: the field_updates of a single update
prepare_field_updates(entities) ==
  set_value(
    set_value(
      set_value(
        set_value(
          set_status(
            IF Len(field_names_of(entities)) > 0 /\ Len(entities.date_values) > 0
            THEN zip_dates(field_names_of(entities), entities.date_values, 1, <<>>) ELSE <<>>,
            field_names_of(entities), entities),
          field_names_of(entities), "remaining", entities.remaining_values,
          IntVal(ParseInt(entities.remaining_values[1]))),
        field_names_of(entities), "completed", entities.completed_values,
        IntVal(ParseInt(entities.completed_values[1]))),
      field_names_of(entities), "original_estimate", entities.original_estimate_values,
      IntVal(ParseInt(entities.original_estimate_values[1]))),
    field_names_of(entities), "assigned_to", entities.assignee_values,
    StrVal(entities.assignee_values[1]))

\* the task_ids of the updates at the indices idx, the last of the list first
RECURSIVE TaskIdsAt_newest_first(_, _, _)
TaskIdsAt_newest_first(batch_updates, idx, i) ==
  IF i > Len(batch_updates) THEN <<>>
  ELSE TaskIdsAt_newest_first(batch_updates, idx, i + 1)
       \o (IF i \in idx THEN <<batch_updates[i].task_id>> ELSE <<>>)

\* the task_ids of the updates at the indices idx, in the order of the list
RECURSIVE TaskIdsAt(_, _, _)
TaskIdsAt(batch_updates, idx, i) ==
  IF i > Len(batch_updates) THEN <<>>
  ELSE (IF i \in idx THEN <<batch_updates[i].task_id>> ELSE <<>>)
       \o TaskIdsAt(batch_updates, idx, i + 1)

\* lines 472-536: results and failed_updates after the calls `made` of the loop,
\* and the report
batch_results(batch_updates, made) ==
  LET results == TaskIdsAt(batch_updates, {i \in 1..Len(made) : made[i].ok}, 1)
      failed_updates == TaskIdsAt(batch_updates, {i \in 1..Len(made) : ~made[i].ok}, 1)
  IN  IF Len(failed_updates) > 0
      THEN [result |-> ToolResult(FALSE,
                         [Message("batch_partially_completed") EXCEPT
                            !.success_count = Len(results), !.failed_count = Len(failed_updates),
                            !.succeeded = results, !.failed = failed_updates]),
            calls |-> made]
      ELSE [result |-> ToolResult(TRUE,
                         [Message("batch_completed") EXCEPT
                            !.success_count = Len(results), !.succeeded = results]),
            calls |-> made]

\* the update_work_item call of every update of the batch, in order
batch_calls(batch_updates, answers) ==
  [i \in 1..Len(batch_updates) |->
     update_work_item(ParseInt(batch_updates[i].task_id),
                      batch_updates[i].field_updates, answers[i])]

\* a loop that stops at the first update that fails
handle_batch_updates_stop_at_failure(batch_updates, answers) ==
  LET all == batch_calls(batch_updates, answers)
      bad == {i \in 1..Len(all) : ~all[i].ok}
  IN  batch_results(batch_updates, IF bad = {} THEN all ELSE SubSeq(all, 1, Min(bad)))

\* _handle_batch_updates; answers[i] is what the backend does in the i-th call
handle_batch_updates(batch_updates, answers) ==
  LET invalid_tasks == {i \in 1..Len(batch_updates) :
                          Len(batch_updates[i].task_id) = 0 \/ ~IsDigit(batch_updates[i].task_id)}
  IN  IF invalid_tasks # {}
      THEN [result |-> ToolResult(FALSE,
                         [Message("invalid_task_ids") EXCEPT
                            !.failed = TaskIdsAt(batch_updates, invalid_tasks, 1)]),
            calls |-> <<>>]
      ELSE batch_results(batch_updates, batch_calls(batch_updates, answers))

\* What happens outside the program during one query: setup is what
\* ado_tool.setup() does if it is called ("ok", "missing_config" for its ValueError,
\* "error" for another exception), query_ok whether get_my_tasks or
\* get_my_pull_requests returns, answers what the backend does in each
\* update_work_item call.
Env(setup, query_ok, answers) == [setup |-> setup, query_ok |-> query_ok, answers |-> answers]

SetupOutcomes == {"ok", "missing_config", "error"}

\* an update whose failure message has neither the work-item id nor the error text
single_update_unnamed_failure(task_id, field_updates, backend) ==
  LET call == update_work_item(ParseInt(task_id), field_updates, backend)
  IN  IF Len(field_updates) = 0
      THEN [result |-> ToolResult(FALSE,
                         [Message("missing_field_updates") EXCEPT !.task_id = task_id]),
            calls |-> <<>>]
      ELSE IF call.ok
      THEN [result |-> ToolResult(TRUE,
                         [Message("task_updated") EXCEPT
                            !.task_id = task_id,
                            !.fields = field_updates_after_call(field_updates,
                                                                call.work_item_type)]),
            calls |-> <<call>>]
      ELSE [result |-> ToolResult(FALSE, Message("failed_to_update_task")),
            calls |-> <<call>>]

\* lines 327-352: the update of one work item with the field_updates prepared
single_update(task_id, field_updates, backend) ==
  LET call == update_work_item(ParseInt(task_id), field_updates, backend)
  IN  IF Len(field_updates) = 0
      THEN [result |-> ToolResult(FALSE,
                         [Message("missing_field_updates") EXCEPT !.task_id = task_id]),
            calls |-> <<>>]
      ELSE IF call.ok
      THEN [result |-> ToolResult(TRUE,
                         [Message("task_updated") EXCEPT
                            !.task_id = task_id,
                            !.fields = field_updates_after_call(field_updates,
                                                                call.work_item_type)]),
            calls |-> <<call>>]
      ELSE [result |-> ToolResult(FALSE,
                         [Message("failed_to_update_task") EXCEPT
                            !.task_id = task_id, !.error = call.error]),
            calls |-> <<call>>]

\* lines 237-352: the task_update branch
execute_task_update(entities, env) ==
  LET outcome == validate(entities)
  IN  CASE outcome = "malformed_batch" ->
             [result |-> ToolResult(FALSE, Message("invalid_batch_update_format")),
              calls |-> <<>>]
        [] outcome = "batch" -> handle_batch_updates(entities.batch_updates, env.answers)
        [] outcome = "missing_id" ->
             [result |-> ToolResult(FALSE, Message("missing_work_item_id")), calls |-> <<>>]
        [] outcome = "invalid_id_format" ->
             [result |-> ToolResult(FALSE,
                           [Message("invalid_work_item_id_format") EXCEPT
                              !.task_id = entities.task_id]),
              calls |-> <<>>]
        [] OTHER ->
             single_update(entities.task_id, prepare_field_updates(entities), env.answers[1])

\* the outcome of a branch that runs with the session set up
with_session(outcome) == [result |-> outcome.result, calls |-> outcome.calls, session |-> TRUE]

\* _execute_azure_devops: the tool result, the update_work_item calls made, and
\* whether the tool has a session afterwards
execute_azure_devops(intent, entities, loaded, has_session, env) ==
  LET no_calls(result, s) == [result |-> result, calls |-> <<>>, session |-> s]
  IN  IF ~loaded
      THEN no_calls(ToolResult(FALSE, Message("tool_not_available")), has_session)
      ELSE IF ~has_session /\ env.setup = "missing_config"
      THEN no_calls(ToolResult(FALSE, Message("configuration_required")), FALSE)
      ELSE IF ~has_session /\ env.setup = "error"
      THEN no_calls(ToolResult(FALSE, Message("failed_to_configure")), FALSE)
      ELSE IF intent = "tasks"
      THEN IF env.query_ok THEN no_calls(ToolResult(TRUE, Message("tasks")), TRUE)
           ELSE no_calls(ToolResult(FALSE, Message("error_accessing_azure_devops")), TRUE)
      ELSE IF intent = "pull_requests"
      THEN IF env.query_ok THEN no_calls(ToolResult(TRUE, Message("pull_requests")), TRUE)
           ELSE no_calls(ToolResult(FALSE, Message("error_accessing_azure_devops")), TRUE)
      ELSE IF intent = "task_update"
      THEN with_session(execute_task_update(entities, env))
      ELSE no_calls(ToolResult(FALSE, Message("unknown_intent")), TRUE)

\* _execute_tool
execute_tool(tool_name, intent, entities, loaded, has_session, env) ==
  LET mock(kind) == [result |-> ToolResult(TRUE, Message(kind)), calls |-> <<>>,
                     session |-> has_session]
  IN  CASE tool_name = "azure_devops" ->
             execute_azure_devops(intent, entities, loaded, has_session, env)
        [] tool_name = "teams" -> mock("mock_teams")
        [] tool_name = "osi_one" -> mock("mock_osi_one")
        [] tool_name = "aggregator" -> mock("mock_aggregator")
        [] OTHER -> [result |-> ToolResult(FALSE, Message("tool_not_implemented")),
                     calls |-> <<>>, session |-> has_session]

\* _generate_response: apology tells whether the message follows
\* "I'm sorry, I couldn't complete your request. "
generate_response(tool_result) ==
  [apology |-> ~tool_result.success, message |-> tool_result.message]

\* the dict process_query returns on its normal path (lines 62-72)
result_envelope(nlp, selected_tool, response) ==
  [success |-> TRUE, response |-> response, intent |-> nlp.name,
   confidence |-> nlp.confidence, tool_used |-> selected_tool,
   metadata |-> [entities |-> nlp.entities]]

history_capacity == 10

\* a history that, once full, keeps its entries and drops the new one
update_conversation_history_keep_oldest(history, user_input, nlp, response) ==
  LET appended == Append(history,
                    [user_input |-> user_input, intent |-> nlp.name,
                     confidence |-> nlp.confidence, entities |-> nlp.entities,
                     response |-> response])
  IN  IF Len(appended) > history_capacity
      THEN SubSeq(appended, 1, history_capacity)
      ELSE appended

\* _update_conversation_history (the timestamp is left out)
update_conversation_history(history, user_input, nlp, response) ==
  LET appended == Append(history,
                    [user_input |-> user_input, intent |-> nlp.name,
                     confidence |-> nlp.confidence, entities |-> nlp.entities,
                     response |-> response])
  IN  IF Len(appended) > history_capacity
      THEN SubSeq(appended, Len(appended) - history_capacity + 1, Len(appended))
      ELSE appended

(***************************************************************************)
(* The state: the orchestrator's tools and conversation history, the       *)
(* Azure DevOps tool's session, and, for the last process_query call, its  *)
(* input, what it returned and the update_work_item calls it made.         *)
(***************************************************************************)
VARIABLES tool_loaded, session, conversation_history, last, calls

vars == <<tool_loaded, session, conversation_history, last, calls>>

NoQuery ==
  [queried |-> FALSE, user_input |-> <<>>, openai_called |-> FALSE,
   tool_result |-> ToolResult(TRUE, Message("none")),
   result |-> result_envelope(Intent("none", 0, EmptyEntities), "none",
                              generate_response(ToolResult(TRUE, Message("none"))))]

\* __init__: _initialize_tools may fail to load the Azure DevOps tool
Init ==
  /\ tool_loaded \in BOOLEAN
  /\ session = FALSE
  /\ conversation_history = <<>>
  /\ last = NoQuery
  /\ calls = <<>>

\* the field_updates of the update_work_item calls the query makes if it gets to them
planned_updates(nlp) ==
  IF nlp.name # "task_update" THEN <<>>
  ELSE IF validate(nlp.entities) = "batch"
  THEN [i \in 1..Len(nlp.entities.batch_updates) |-> nlp.entities.batch_updates[i].field_updates]
  ELSE IF validate(nlp.entities) = "single"
  THEN LET field_updates == prepare_field_updates(nlp.entities)
       IN  IF Len(field_updates) > 0 THEN <<field_updates>> ELSE <<>>
  ELSE <<>>

\* lines 56-72: what process_query returns once the selected tool has answered t
query_outcome(user_input, classified, selected_tool, t) ==
  [user_input |-> user_input, openai_called |-> classified.openai_called,
   nlp |-> classified.intent,
   tool_result |-> t.result, calls |-> t.calls, session |-> t.session,
   result |-> result_envelope(classified.intent, selected_tool, generate_response(t.result))]

\* AgentOrchestrator.process_query, lines 40-72: what it returns (result), the
\* update_work_item calls it makes, and the tool's session afterwards.  classified
\* is what classify_intent answered; loaded and has_session are the state the
\* query starts in.
process_query(user_input, classified, loaded, has_session, env) ==
  query_outcome(user_input, classified, select_tool(classified.intent.name),
                execute_tool(select_tool(classified.intent.name), classified.intent.name,
                             classified.intent.entities, loaded, has_session, env))

\* The outcomes of the outside world that a query can tell apart: the classifier is
\* not called for a text with an update keyword, setup only by a loaded tool without
\* a session, and the type is looked up only for a status update.
ClassifierChoices(user_input) ==
  IF has_update_keyword(user_input) THEN {[error |-> TRUE, text |-> <<>>]}
  ELSE ClassifierOutcomes

SetupChoices(nlp, loaded, has_session) ==
  IF select_tool(nlp.name) = "azure_devops" /\ loaded /\ ~has_session THEN SetupOutcomes
  ELSE {"ok"}

QueryChoices(nlp) == IF nlp.name \in {"tasks", "pull_requests"} THEN BOOLEAN ELSE {TRUE}

AnswerChoices(plans) ==
  { a \in [1..Len(plans) -> BackendAnswers] :
      \A i \in 1..Len(plans) : ~HasKey(plans[i], "status") => a[i].lookup.error }

EnvChoices(nlp, plans, loaded, has_session) ==
  { Env(setup, query_ok, answers) :
      setup \in SetupChoices(nlp, loaded, has_session),
      query_ok \in QueryChoices(nlp),
      answers \in AnswerChoices(plans) }

\* classify_intent is a function of the text and of what the classifier does: it
\* is computed once for each of them
NlpTable ==
  UNION { { [user_input |-> t, classified |-> classify_intent(t, c)] :
              c \in ClassifierChoices(t) } : t \in InputTexts }

\* process_query is a function of its input, the state it starts in and what the
\* outside world does: it is computed once for each of them
ProcessQueryRows(q, plans, loaded, has_session) ==
  { [loaded |-> loaded, has_session |-> has_session,
     out |-> process_query(q.user_input, q.classified, loaded, has_session, env)] :
      env \in EnvChoices(q.classified.intent, plans, loaded, has_session) }

ProcessQueryTable ==
  UNION { UNION { ProcessQueryRows(q.nlp, q.plans, loaded, has_session) :
                    loaded \in BOOLEAN, has_session \in BOOLEAN } :
            q \in { [nlp |-> n, plans |-> planned_updates(n.classified.intent)] : n \in NlpTable } }

\* one call of process_query that records the query in the history only when the
\* tool succeeded
ProcessQueryFrom_successes_only(queries) ==
  \E q \in queries :
    /\ q.loaded = tool_loaded
    /\ q.has_session = session
    /\ session' = q.out.session
    /\ calls' = q.out.calls
    /\ conversation_history' =
         IF q.out.tool_result.success
         THEN update_conversation_history(conversation_history, q.out.user_input, q.out.nlp,
                                          q.out.result.response)
         ELSE conversation_history
    /\ last' = [queried |-> TRUE, user_input |-> q.out.user_input,
                openai_called |-> q.out.openai_called,
                tool_result |-> q.out.tool_result, result |-> q.out.result]
    /\ UNCHANGED tool_loaded

\* one call of AgentOrchestrator.process_query with one of the given queries
ProcessQueryFrom(queries) ==
  \E q \in queries :
    /\ q.loaded = tool_loaded
    /\ q.has_session = session
    /\ session' = q.out.session
    /\ calls' = q.out.calls
    /\ conversation_history' =
         update_conversation_history(conversation_history, q.out.user_input, q.out.nlp,
                                     q.out.result.response)
    /\ last' = [queried |-> TRUE, user_input |-> q.out.user_input,
                openai_called |-> q.out.openai_called,
                tool_result |-> q.out.tool_result, result |-> q.out.result]
    /\ UNCHANGED tool_loaded

\* one call of AgentOrchestrator.process_query
ProcessQuery ==
  /\ Len(conversation_history) < MaxTurns
  /\ ProcessQueryFrom(ProcessQueryTable)

\* a user_input that is not a str (None)
NotText == <<"None">>

\* the dict the except handler of process_query returns (lines 74-80); it has no
\* intent, confidence, tool_used or metadata
error_envelope ==
  [success |-> FALSE,
   response |-> [apology |-> FALSE, message |-> Message("error_processing_request")],
   intent |-> "none", confidence |-> 0, tool_used |-> "none",
   metadata |-> [entities |-> EmptyEntities]]

\* one call of process_query with a user_input that is not a str: user_input.lower()
\* raises in classify_intent and again in the fallback its handler calls, no tool is
\* run and nothing is appended to the history; the handler of lines 74-80 answers
ProcessQueryNotText ==
  /\ last' = [queried |-> TRUE, user_input |-> NotText, openai_called |-> FALSE,
              tool_result |-> NoQuery.tool_result, result |-> error_envelope]
  /\ calls' = <<>>
  /\ UNCHANGED <<tool_loaded, session, conversation_history>>

\* AgentOrchestrator.clear_history
ClearHistory ==
  /\ conversation_history' = <<>>
  /\ UNCHANGED <<tool_loaded, session, last, calls>>

Next == ProcessQuery \/ ProcessQueryNotText \/ ClearHistory

Spec == Init /\ [][Next]_vars

(***************************************************************************)
(* Conversations: any number of process_query calls, with two texts that   *)
(* the keyword fallback classifies (the external classifier has no API     *)
(* key), and of clear_history calls, so that the history fills up and      *)
(* entries are evicted.                                                    *)
(***************************************************************************)
HistoryTexts == { <<"f","i","l","l"," ","m","y"," ","t","i","m","e","s","h","e","e","t">>, <<"w","h","a","t"," ","m","e","e","t","i","n","g","s"," ","d","o"," ","I"," ","h","a","v","e"," ","t","o","d","a","y">> }

\* the queries with the given texts when the call of the external classifier fails
FallbackRows(texts) ==
  UNION { ProcessQueryRows([user_input |-> t,
                            classified |-> classify_intent(t, [error |-> TRUE, text |-> <<>>])],
                           <<>>, loaded, has_session) :
            t \in texts, loaded \in BOOLEAN, has_session \in BOOLEAN }

ProcessQueryAgain == ProcessQueryFrom(FallbackRows(HistoryTexts))

NextHistory == ProcessQueryAgain \/ ProcessQueryNotText \/ ClearHistory

SpecHistory == Init /\ [][NextHistory]_vars

(***************************************************************************)
(* Queries classified by the keyword fallback: texts of two words, with    *)
(* keywords of every group, in either order and case, keywords inside      *)
(* other words ("print", "asset") and words of no group.                   *)
(***************************************************************************)
FallbackWords ==
  { <<"T","i","m","e","s","h","e","e","t">>, <<"s","u","b","m","i","t">>, <<"t","a","s","k">>, <<"S","P","R","I","N","T">>, <<"m","e","e","t","i","n","g">>, <<"C","a","l","l">>, <<"p","u","l","l"," ","r","e","q","u","e","s","t">>,
    <<"r","e","v","i","e","w">>, <<"s","u","m","m","a","r","y">>, <<"A","c","t","i","v","i","t","y">>, <<"p","r","i","n","t">>, <<"a","s","s","e","t">>, <<"h","e","l","l","o">>, <<"p","l","e","a","s","e">> }

FallbackTexts == { v \o <<" ">> \o w : v \in FallbackWords, w \in FallbackWords }

ProcessQueryFallback ==
  /\ Len(conversation_history) < MaxTurns
  /\ ProcessQueryFrom(FallbackRows(FallbackTexts))

SpecFallback == Init /\ [][ProcessQueryFallback]_vars

(***************************************************************************)
(* AzureDevOpsTool.update_work_item called directly, with field_updates    *)
(* drawn from the status tokens and date texts below.                      *)
(***************************************************************************)
StatusTokens ==
  { <<"a","c","t","i","v","e">>, <<"n","e","w">>, <<"a","p","p","r","o","v","e","d">>, <<"r","e","s","o","l","v","e","d">>, <<"c","l","o","s","e","d">>, <<"r","e","m","o","v","e","d">>, <<"b","l","o","c","k","e","d">>,
    <<"R","e","s","o","l","v","e","d">>, <<"A","C","T","I","V","E">>, <<"A","p","p","r","o","v","e","d">>, <<"d","o","n","e">>, <<"i","n"," ","p","r","o","g","r","e","s","s">>, <<>> }

DateTexts ==
  { <<"0","8","/","1","1","/","2","0","2","5">>, <<"8","/","5","/","2","0","2","5">>, <<"1","2","/","3","1","/","1","9","9","9">>, <<"0","2","/","2","9","/","2","0","2","4">>, <<"0","2","/","2","9","/","2","0","2","5">>, <<"0","1","/","0","1","/","1","0","0","0">>,
    <<"1","3","/","4","5","/","2","0","2","5">>, <<"0","0","/","0","1","/","2","0","2","5">>, <<"0","8","/","0","0","/","2","0","2","5">>, <<"0","/","1","/","2","0","2","5">>, <<"0","8","/"," ","5","/","2","0","2","5">>, <<" ","8","/","0","5","/","2","0","2","5">>,
    <<"0","8","/","0","5","/","2","0","2","5"," ">>, <<"0","8","/","0","5","/","2","5">>, <<"0","8","/","/","2","0","2","5">>, <<"0","8","/","0","5","/","2","0","2","5","0">>, <<"2","0","2","5","/","0","8","/","0","5">>, <<"0","8","/","1","1","/","2","0","2","5","/">>,
    <<"0","0","8","/","1","1","/","2","0","2","5">>, <<"0","8","/"," ","0","5","/","2","0","2","5">>, <<"2","0","2","5","-","0","8","-","1","1">>, <<"2","0","2","5","-","0","8","-","1","2">>, <<"1","9","9","9","-","1","2","-","3","1">>,
    <<"t","o","m","o","r","r","o","w">>, <<"n","e","x","t","/","w","e","e","k">>, <<>> }

WorkItemIds == {7, 12345}

ToolFieldUpdates ==
  { <<[k |-> "status", v |-> StrVal(t)]>> : t \in StatusTokens } \cup
  { <<[k |-> f, v |-> StrVal(d)]>> :
      f \in {"start_date", "finish_date", "title"}, d \in DateTexts } \cup
  { <<[k |-> "start_date", v |-> StrVal(d)], [k |-> "status", v |-> StrVal(<<"r","e","s","o","l","v","e","d">>)],
      [k |-> "remaining", v |-> IntVal(5)]>> : d \in DateTexts }

InitTool ==
  /\ tool_loaded = TRUE
  /\ session = TRUE
  /\ conversation_history = <<>>
  /\ last = NoQuery
  /\ calls = <<>>

\* one call of AzureDevOpsTool.update_work_item
UpdateWorkItem ==
  \E work_item_id \in WorkItemIds, field_updates \in ToolFieldUpdates, backend \in BackendAnswers :
    /\ ~HasKey(field_updates, "status") => backend.lookup.error
    /\ calls' = <<update_work_item(work_item_id, field_updates, backend)>>
    /\ UNCHANGED <<tool_loaded, session, conversation_history, last>>

SpecTool == InitTool /\ [][UpdateWorkItem]_vars

(***************************************************************************)
(* Properties                                                              *)
(***************************************************************************)

\* C1: update_work_item is called only with the integer value of an all-digits
\* task_id of the same query: the query's task_id in a single update, the line's
\* task_id for the i-th item of a batch; and a task_update query whose entities
\* have neither a task_id nor a batch item makes no call.
C1_DispatchOnlyWithNumericId ==
  LET e == last.result.metadata.entities
  IN  /\ \A i \in 1..Len(calls) :
           IF Len(e.batch_updates) > 0
           THEN /\ i <= Len(e.batch_updates)
                /\ IsDigit(e.batch_updates[i].task_id)
                /\ calls[i].work_item_id = ParseInt(e.batch_updates[i].task_id)
           ELSE /\ i = 1
                /\ IsDigit(e.task_id)
                /\ calls[i].work_item_id = ParseInt(e.task_id)
      /\ (last.result.intent = "task_update" /\ Len(e.task_id) = 0 /\ Len(e.batch_updates) = 0)
           => calls = <<>>

\* a single update of TASK-12345 was dispatched with the id 12345
C1_Witness ==
  /\ last.queried
  /\ Len(calls) = 1
  /\ last.result.metadata.entities.task_id = <<"1","2","3","4","5">>
  /\ calls[1].work_item_id = 12345

\* C2: a text with an update verb and no parsable numeric work-item id makes no
\* update_work_item call and is answered with the missing-id message.
C2_NoIdAnsweredWithMissingId ==
  LET e == last.result.metadata.entities
  IN  (/\ last.queried
       /\ has_update_keyword(last.user_input)
       /\ ~Contains(Lower(last.user_input), batch_update_pattern)
       /\ Len(e.task_id) = 0)
      => /\ calls = <<>>
         /\ last.tool_result.message.kind = "missing_work_item_id"

\* C3: every rejection or error outcome of process_query is returned with
\* success false.
C3_RejectionsAreNotSuccess ==
  (/\ last.queried
   /\ last.tool_result.message.kind \in
        {"missing_work_item_id", "invalid_work_item_id_format", "invalid_batch_update_format",
         "missing_field_updates", "failed_to_update_task", "batch_partially_completed",
         "invalid_task_ids"})
  => last.result.success = FALSE

\* C4: a text with an update keyword is classified task_update by the rules, and the
\* external classifier is not called, whether or not the text has a work-item id.
C4_UpdateKeywordIsRuleBased ==
  (/\ last.queried
   /\ \E i \in 1..Len(update_keywords) : Contains(Lower(last.user_input), update_keywords[i]))
  => /\ last.result.intent = "task_update"
     /\ last.result.confidence \in {6, 8}
     /\ ~last.openai_called

\* a text with "set" in it and a work-item id went the rule-based way
C4_Witness ==
  /\ last.queried
  /\ Contains(Lower(last.user_input), <<"r","e","s","e","t">>)
  /\ last.result.metadata.entities.task_id = <<"1","2","3","4","5">>
  /\ last.result.intent = "task_update"
  /\ ~last.openai_called

\* C5: a batch text one of whose non-blank lines after the header has a missing or
\* non-numeric task id is answered with the malformed-batch message and makes no
\* update_work_item call.
C5_BadBatchLineRejectsBatch ==
  LET lines == SplitLines(last.user_input)
      bad_id(line) == \/ ~SearchI(line, batch_task_pattern).found
                      \/ ~IsDigit(Group(line, SearchI(line, batch_task_pattern)))
  IN  (/\ last.queried
       /\ Contains(Lower(last.user_input), batch_update_pattern)
       /\ \E i \in 2..Len(lines) : Len(Strip(lines[i])) > 0 /\ bad_id(Strip(lines[i])))
      => /\ calls = <<>>
         /\ last.tool_result.message.kind = "invalid_batch_update_format"

\* what C6 asks of the last query, a batch of n lines: n calls, the i-th for the
\* i-th line, and a report that counts and lists the failed and the succeeded ids
C6_Report(n) ==
  LET e == last.result.metadata.entities
      m == last.tool_result.message
      failed == {i \in 1..Len(calls) : ~calls[i].ok}
  IN  /\ Len(e.batch_updates) = n
      /\ Len(calls) = n
      /\ \A i \in 1..n : /\ calls[i].work_item_id = ParseInt(e.batch_updates[i].task_id)
                         /\ calls[i].field_updates = e.batch_updates[i].field_updates
      /\ m.failed_count = Cardinality(failed)
      /\ m.success_count = n - Cardinality(failed)
      /\ m.failed = TaskIdsAt(e.batch_updates, failed, 1)
      /\ m.succeeded = TaskIdsAt(e.batch_updates, (1..n) \ failed, 1)

\* the number of non-blank lines after the header of a batch text
C6_Lines ==
  LET lines == SplitLines(last.user_input)
  IN  Cardinality({i \in 2..Len(lines) : Len(Strip(lines[i])) > 0})

C7_AllFailedIsNotPartial ==
  (/\ last.queried
   /\ Len(last.result.metadata.entities.batch_updates) > 0
   /\ Len(calls) > 0
   /\ \A i \in 1..Len(calls) : ~calls[i].ok)
  => last.tool_result.message.kind # "batch_partially_completed"

\* the value of the operation on the field field_name of a call
C8_Value(call, field_name) ==
  call.operations[CHOOSE i \in 1..Len(call.field_updates) :
                    call.field_updates[i].k = field_name].value.s

\* C8: for a work item of type TASK or USER STORY the status sent is a legal state
\* of the type: the synonym of the requested token if that is legal, else Active;
\* "resolved" is sent as Active for a TASK and as Resolved for a USER STORY.
C8_StatusIsLegalForType ==
  \A i \in 1..Len(calls) :
    LET call == calls[i]
        token == DictGet(call.field_updates, "status").s
        synonym == TableGet(status_mapping, Lower(token), token)
        legal == ValidStates(call.work_item_type)
    IN  (HasKey(call.field_updates, "status") /\ call.work_item_type \in {<<"T","A","S","K">>, <<"U","S","E","R"," ","S","T","O","R","Y">>})
        => /\ C8_Value(call, "status") \in legal
           /\ C8_Value(call, "status") = IF synonym \in legal THEN synonym ELSE <<"A","c","t","i","v","e">>
           /\ (token = <<"r","e","s","o","l","v","e","d">> /\ call.work_item_type = <<"T","A","S","K">>)
                => C8_Value(call, "status") = <<"A","c","t","i","v","e">>
           /\ (token = <<"r","e","s","o","l","v","e","d">> /\ call.work_item_type = <<"U","S","E","R"," ","S","T","O","R","Y">>)
                => C8_Value(call, "status") = <<"R","e","s","o","l","v","e","d">>

\* "resolved" was sent as Active for a TASK
C8_Witness ==
  /\ Len(calls) = 1
  /\ HasKey(calls[1].field_updates, "status")
  /\ DictGet(calls[1].field_updates, "status").s = <<"r","e","s","o","l","v","e","d">>
  /\ calls[1].work_item_type = <<"T","A","S","K">>
  /\ C8_Value(calls[1], "status") = <<"A","c","t","i","v","e">>

\* C9: a start_date or finish_date written MM/DD/YYYY is sent as YYYY-MM-DD
\* ("08/11/2025" as "2025-08-11"), a YYYY-MM-DD value and a value strptime does not
\* parse are sent unchanged, and converting what was sent changes nothing.
C9_DatesNormalized ==
  \A i \in 1..Len(calls) : \A j \in 1..Len(calls[i].field_updates) :
    LET item == calls[i].field_updates[j]
        v == item.v.s
        sent == calls[i].operations[j].value.s
        digits_but(seps) == \A k \in (1..10) \ seps : v[k] \in Digits
        slashed == Len(v) = 10 /\ v[3] = "/" /\ v[6] = "/" /\ digits_but({3, 6})
        iso == Len(v) = 10 /\ v[5] = "-" /\ v[8] = "-" /\ digits_but({5, 8})
    IN  (item.k \in {"start_date", "finish_date"} /\ item.v.t = "str")
        => /\ (slashed /\ strptime_ok(v))
                => sent = SubSeq(v, 7, 10) \o <<"-">> \o SubSeq(v, 1, 2) \o <<"-">> \o SubSeq(v, 4, 5)
           /\ v = <<"0","8","/","1","1","/","2","0","2","5">> => sent = <<"2","0","2","5","-","0","8","-","1","1">>
           /\ iso => sent = v
           /\ ~strptime_ok(v) => sent = v
           /\ format_date(sent) = sent

\* a finish_date 08/11/2025 was sent as 2025-08-11
C9_Witness ==
  /\ Len(calls) = 1
  /\ calls[1].field_updates = <<[k |-> "finish_date", v |-> StrVal(<<"0","8","/","1","1","/","2","0","2","5">>)]>>
  /\ calls[1].operations[1].value = StrVal(<<"2","0","2","5","-","0","8","-","1","1">>)

\* C10: every update_work_item call has a non-empty field_updates, and a single
\* update whose entities yield no field update makes no call and is answered with
\* the missing-field-updates message that names its task_id.
C10_NoEmptyPlanDispatched ==
  LET e == last.result.metadata.entities
  IN  /\ \A i \in 1..Len(calls) : Len(calls[i].field_updates) > 0
      /\ (/\ last.queried
          /\ last.result.intent = "task_update"
          /\ validate(e) = "single"
          /\ Len(prepare_field_updates(e)) = 0)
         => /\ calls = <<>>
            /\ last.tool_result.message.kind = "missing_field_updates"
            /\ last.tool_result.message.task_id = e.task_id

\* C11: every work-item id passed to update_work_item, from a single update or
\* from a batch item, is strictly greater than zero.
C11_IdsArePositive ==
  \A i \in 1..Len(calls) : calls[i].work_item_id > 0

\* C12: every key of the field_updates passed to update_work_item is one of the ten
\* canonical field names (the keys of field_mapping), also when the text names no
\* recognisable field.
C12_KeysAreCanonical ==
  \A i \in 1..Len(calls) :
    \A j \in 1..Len(calls[i].field_updates) :
      \E m \in 1..Len(field_mapping) : field_mapping[m].key = calls[i].field_updates[j].k

\* C13: process_query answers every query with a result that has a response, also
\* when something fails: a failed session setup is answered with the configuration
\* error and no call; a failed single update with the failure message that names
\* the work-item id and the text of the error; failed batch items with the report
\* that lists their ids; a failed type lookup does not fail the update; and an
\* input on which a step raises is answered by the handler with success false.
C13_FailuresAreAnswered ==
  LET e == last.result.metadata.entities
      m == last.tool_result.message
      failed == {i \in 1..Len(calls) : ~calls[i].ok}
  IN  last.queried =>
        /\ last.result.response.message.kind # "none"
        /\ (last.result.tool_used = "azure_devops" /\ tool_loaded /\ ~session)
             => /\ m.kind \in {"configuration_required", "failed_to_configure"}
                /\ last.result.response.apology
                /\ calls = <<>>
        /\ (Len(e.batch_updates) = 0 /\ failed # {})
             => /\ m.kind = "failed_to_update_task"
                /\ m.task_id = e.task_id
                /\ m.error = calls[1].error
                /\ m.error # ""
                /\ last.result.response.apology
        /\ (Len(e.batch_updates) > 0 /\ failed # {})
             => /\ m.kind = "batch_partially_completed"
                /\ m.failed = TaskIdsAt(e.batch_updates, failed, 1)
                /\ Len(calls) = Len(e.batch_updates)
                /\ last.result.response.apology
        /\ (calls # <<>> /\ failed = {})
             => /\ m.kind \in {"task_updated", "batch_completed"}
                /\ ~last.result.response.apology
        /\ last.user_input = NotText
             => /\ ~last.result.success
                /\ last.result.response.message.kind = "error_processing_request"
                /\ calls = <<>>

\* a single update whose type lookup failed and whose PATCH was refused was
\* answered with the failure message naming the id 12345 and the error
C13_Witness ==
  /\ last.queried
  /\ Len(calls) = 1
  /\ calls[1].looked_up /\ calls[1].work_item_type = <<>>
  /\ ~calls[1].ok
  /\ last.tool_result.message.kind = "failed_to_update_task"
  /\ last.tool_result.message.task_id = <<"1","2","3","4","5">>
  /\ last.tool_result.message.error = update_failed

\* C14: the conversation history never holds more than 10 entries; a call that
\* changes it, or that answers a text other than the one answered before, either
\* is clear_history and empties it, or appends the entry of the query just answered
\* behind the entries it held, in their order, dropping the oldest entry when it
\* already held 10; a query after clear_history is appended to the empty history.
C14_HistoryIsBoundedFifo ==
  /\ [](Len(conversation_history) <= history_capacity)
  /\ [][(conversation_history' # conversation_history
           \/ (last' # last /\ last'.user_input # NotText)) =>
          \/ conversation_history' = <<>> /\ last' = last
          \/ /\ Len(conversation_history') = Min({Len(conversation_history) + 1, history_capacity})
             /\ conversation_history'[Len(conversation_history')] =
                  [user_input |-> last'.user_input, intent |-> last'.result.intent,
                   confidence |-> last'.result.confidence,
                   entities |-> last'.result.metadata.entities,
                   response |-> last'.result.response]
             /\ \A i \in 1..(Len(conversation_history') - 1) :
                  conversation_history'[i] =
                    conversation_history[i + Len(conversation_history) + 1
                                           - Len(conversation_history')]]_vars

\* the history is full, its newest entry is the query just answered and its oldest
\* entry is an entry of the other text
C14_Witness ==
  /\ Len(conversation_history) = history_capacity
  /\ last.queried
  /\ conversation_history[history_capacity].user_input = last.user_input
  /\ conversation_history[1].user_input # last.user_input
  /\ conversation_history[1].user_input \in HistoryTexts

\* C15: when the keyword fallback classifies a text that contains no update keyword,
\* the intent is that of the first of the groups timesheet, tasks, meetings,
\* pull_requests, summary (in this order) one of whose keywords occurs in the
\* lower-cased text, with confidence 0.6; it is tasks with confidence 0.3 when no
\* group has a keyword in the text; and the entities are empty in both cases.
C15_FallbackFirstGroup ==
  LET groups == 1..Len(fallback_keywords)
      text == Lower(last.user_input)
  IN  (last.queried /\ ~has_update_keyword(last.user_input)) =>
        /\ [i \in groups |-> fallback_keywords[i].key] =
             <<"timesheet", "tasks", "meetings", "pull_requests", "summary">>
        /\ last.result.metadata.entities = EmptyEntities
        /\ \A i \in groups :
             (/\ ContainsAny(text, fallback_keywords[i].words)
              /\ \A j \in 1..(i - 1) : ~ContainsAny(text, fallback_keywords[j].words))
               => /\ last.result.intent = fallback_keywords[i].key
                  /\ last.result.confidence = 6
        /\ (\A i \in groups : ~ContainsAny(text, fallback_keywords[i].words))
             => /\ last.result.intent = "tasks"
                /\ last.result.confidence = 3

\* "review meeting" has a keyword of pull_requests before one of meetings and was
\* classified as meetings, the earlier group
C15_Witness ==
  /\ last.queried
  /\ last.user_input = <<"r","e","v","i","e","w"," ","m","e","e","t","i","n","g">>
  /\ last.result.intent = "meetings"
  /\ last.result.confidence = 6
  /\ last.result.metadata.entities = EmptyEntities

\* C16: the field_updates of a single update have a status only when field_names
\* contains "status", and its value is then the first status value extracted, or
\* the status scalar when no status value was extracted.
C16_StatusOnlyWhenNamed ==
  LET e == last.result.metadata.entities
  IN  (last.queried /\ Len(e.batch_updates) = 0) =>
        \A i \in 1..Len(calls) :
          HasKey(calls[i].field_updates, "status") =>
            /\ InSeq("status", e.field_names)
            /\ DictGet(calls[i].field_updates, "status") =
                 StrVal(IF Len(e.status_values) > 0 THEN e.status_values[1] ELSE e.status)

\* C17: in a single update that is dispatched, field_names lists the recognised
\* fields in the order in which the text mentions them: the first keyword of each
\* field stands in the lower-cased text before the first keyword of the next.
C17_FieldNamesInTextOrder ==
  LET e == last.result.metadata.entities
      text == Lower(last.user_input)
      words(f) == field_patterns[CHOOSE m \in 1..Len(field_patterns) :
                                   field_patterns[m].key = f].words
      mentioned(f) == Min({p \in 1..Len(text) :
                             \E k \in 1..Len(words(f)) :
                               /\ p + Len(words(f)[k]) - 1 <= Len(text)
                               /\ SubSeq(text, p, p + Len(words(f)[k]) - 1) = words(f)[k]})
  IN  (last.queried /\ Len(e.batch_updates) = 0 /\ calls # <<>>) =>
        \A i \in 1..(Len(e.field_names) - 1) :
          mentioned(e.field_names[i]) < mentioned(e.field_names[i + 1])

\* C18: the answer to a task_update query is decided by the first validation rule
\* that matches, in this order: batch_update_error gives the malformed-batch
\* rejection; else a non-empty batch_updates is planned as a batch; else an absent
\* task_id gives the missing-id rejection; else a task_id that is not all digits
\* gives the invalid-format rejection that echoes the task_id; else the query is
\* planned as a single update.  A query of another intent gets none of the three
\* rejections.
C18_FirstRuleDecides ==
  LET e == last.result.metadata.entities
      m == last.tool_result.message
  IN  last.queried =>
        IF last.result.intent = "task_update"
        THEN IF e.batch_update_error THEN m.kind = "invalid_batch_update_format"
             ELSE IF Len(e.batch_updates) > 0
             THEN m.kind \in {"batch_completed", "batch_partially_completed", "invalid_task_ids"}
             ELSE IF Len(e.task_id) = 0 THEN m.kind = "missing_work_item_id"
             ELSE IF ~IsDigit(e.task_id)
             THEN m.kind = "invalid_work_item_id_format" /\ m.task_id = e.task_id
             ELSE m.kind \in {"task_updated", "failed_to_update_task", "missing_field_updates"}
        ELSE m.kind \notin {"invalid_batch_update_format", "missing_work_item_id",
                            "invalid_work_item_id_format"}

\* C19: a task_update query ends in exactly one of the terminal states Rejected (one
\* of the three validation rejections, exactly when a validation rule rejects),
\* PlanError (no field updates, or a batch item without a numeric id) or Reported
\* (the report of the updates attempted); update_work_item is called only on the way
\* to Reported, and there is no retry: a single update is attempted at most once
\* and the i-th attempt of a batch is the i-th item, whether attempts failed or not.
C19_TaskUpdateStateMachine ==
  LET e == last.result.metadata.entities
      m == last.tool_result.message
      Rejected == {"invalid_batch_update_format", "missing_work_item_id",
                   "invalid_work_item_id_format"}
      PlanError == {"missing_field_updates", "invalid_task_ids"}
      Reported == {"task_updated", "failed_to_update_task", "batch_completed",
                   "batch_partially_completed"}
  IN  (last.queried /\ last.result.intent = "task_update") =>
        /\ m.kind \in Rejected \cup PlanError \cup Reported
        /\ m.kind \in Rejected <=>
             \/ e.batch_update_error
             \/ Len(e.batch_updates) = 0 /\ ~IsDigit(e.task_id)
        /\ m.kind \in Reported <=> calls # <<>>
        /\ IF Len(e.batch_updates) > 0
           THEN /\ Len(calls) <= Len(e.batch_updates)
                /\ \A i \in 1..Len(calls) :
                     calls[i].work_item_id = ParseInt(e.batch_updates[i].task_id)
           ELSE Len(calls) <= 1

\* C20: a task_update query with a malformed batch, or with no batch and no
\* work-item id, is answered with its validation rejection whatever the state of
\* the Azure DevOps tool and its configuration, and the call that answers it does
\* not create the tool's session.
C20_ValidationBeforeSetup ==
  /\ []((/\ last.queried
         /\ last.result.intent = "task_update"
         /\ \/ last.result.metadata.entities.batch_update_error
            \/ /\ Len(last.result.metadata.entities.batch_updates) = 0
               /\ Len(last.result.metadata.entities.task_id) = 0)
          => last.tool_result.message.kind =
               IF last.result.metadata.entities.batch_update_error
               THEN "invalid_batch_update_format" ELSE "missing_work_item_id")
  /\ [][session' # session =>
          ~(/\ last'.result.intent = "task_update"
            /\ \/ last'.result.metadata.entities.batch_update_error
               \/ /\ Len(last'.result.metadata.entities.batch_updates) = 0
                  /\ Len(last'.result.metadata.entities.task_id) = 0)]_vars

\* the last query was answered with a batch report
C21_Reported ==
  /\ last.queried
  /\ last.tool_result.message.kind \in {"batch_completed", "batch_partially_completed"}

\* the list `listed` of a batch report holds, in the order of the lines, the id of
\* every non-blank line after the header whose update is in `which` (the i-th
\* update is the one of the i-th such line)
C21_InLineOrder(listed, which) ==
  LET e == last.result.metadata.entities
      lines == SelectSeq(Tail(SplitLines(last.user_input)), LAMBDA l : Len(Strip(l)) > 0)
  IN  /\ Len(lines) = Len(e.batch_updates)
      /\ Len(calls) = Len(lines)
      /\ \A i \in 1..Len(lines) : Contains(lines[i], e.batch_updates[i].task_id)
      /\ Len(listed) = Cardinality(which)
      /\ \A i \in which :
           listed[Cardinality({j \in which : j <= i})] = e.batch_updates[i].task_id

\* C21 as stated: in a batch report the succeeded ids and the failed ids are each
\* listed in the order of their lines, and the id of every line is in exactly one
\* of the two lists.
C21_EachIdInOneList ==
  C21_Reported =>
    /\ C21_InLineOrder(last.tool_result.message.succeeded,
                       {i \in 1..Len(calls) : calls[i].ok})
    /\ C21_InLineOrder(last.tool_result.message.failed,
                       {i \in 1..Len(calls) : ~calls[i].ok})
    /\ \A i \in 1..Len(last.result.metadata.entities.batch_updates) :
         InSeq(last.result.metadata.entities.batch_updates[i].task_id,
               last.tool_result.message.succeeded)
           # InSeq(last.result.metadata.entities.batch_updates[i].task_id,
                   last.tool_result.message.failed)

\* C21, amended: in a batch report the succeeded ids and the failed ids are each
\* listed in the order of their lines, and every line has exactly one entry, in
\* the list of its own outcome (an id that two lines name is listed once for each).
C21_EachLineInOneList ==
  C21_Reported =>
    /\ C21_InLineOrder(last.tool_result.message.succeeded,
                       {i \in 1..Len(calls) : calls[i].ok})
    /\ C21_InLineOrder(last.tool_result.message.failed,
                       {i \in 1..Len(calls) : ~calls[i].ok})
    /\ Len(last.tool_result.message.succeeded) + Len(last.tool_result.message.failed)
         = Len(last.result.metadata.entities.batch_updates)

\* a batch of two lines with different ids whose updates both failed was reported
\* with the two ids in the order of the lines
C21_Witness ==
  /\ C21_Reported
  /\ Len(calls) = 2
  /\ ~calls[1].ok /\ ~calls[2].ok
  /\ calls[1].work_item_id # calls[2].work_item_id
  /\ last.tool_result.message.failed =
       << last.result.metadata.entities.batch_updates[1].task_id,
          last.result.metadata.entities.batch_updates[2].task_id >>

\* C22: "Update TASK-12345 Status -> Resolved" and "Update TASK-12345 Status ->
\* Approved", answered with the Azure DevOps tool set up, make one update_work_item
\* call with a status, and when the work item is a TASK the state sent is Active.
C22_IllegalStatusFallsBack ==
  (/\ last.queried
   /\ last.user_input \in { <<"U","p","d","a","t","e"," ","T","A","S","K","-","1","2","3","4","5"," ","S","t","a","t","u","s"," ","-",">"," ","R","e","s","o","l","v","e","d">>,
                            <<"U","p","d","a","t","e"," ","T","A","S","K","-","1","2","3","4","5"," ","S","t","a","t","u","s"," ","-",">"," ","A","p","p","r","o","v","e","d">> }
   /\ last.tool_result.message.kind \notin
        {"tool_not_available", "configuration_required", "failed_to_configure"})
  => /\ Len(calls) = 1
     /\ calls[1].work_item_id = 12345
     /\ HasKey(calls[1].field_updates, "status")
     /\ calls[1].work_item_type = <<"T","A","S","K">> =>
          \E j \in 1..Len(calls[1].field_updates) :
            /\ calls[1].field_updates[j].k = "status"
            /\ calls[1].operations[j].value.s = <<"A","c","t","i","v","e">>

\* C23: update_work_item looks the type up exactly when field_updates has a status;
\* the patch has one operation for every field whatever the lookup answered; and
\* when the lookup failed or the type is neither TASK nor USER STORY the state sent
\* is the synonym of the status token, or the token itself if it has no synonym.
C23_LookupFailureKeepsSynonym ==
  \A i \in 1..Len(calls) :
    /\ calls[i].looked_up <=> HasKey(calls[i].field_updates, "status")
    /\ ~calls[i].looked_up => calls[i].work_item_type = <<>>
    /\ Len(calls[i].operations) = Len(calls[i].field_updates)
    /\ \A j \in 1..Len(calls[i].field_updates) :
         (/\ calls[i].field_updates[j].k = "status"
          /\ calls[i].work_item_type \notin { <<"T","A","S","K">>, <<"U","S","E","R"," ","S","T","O","R","Y">> })
         => /\ calls[i].operations[j].path = "System.State"
            /\ calls[i].operations[j].value.s =
                 IF \E m \in 1..Len(status_mapping) :
                      status_mapping[m].key = Lower(calls[i].field_updates[j].v.s)
                 THEN status_mapping[CHOOSE m \in 1..Len(status_mapping) :
                        status_mapping[m].key = Lower(calls[i].field_updates[j].v.s)].value
                 ELSE calls[i].field_updates[j].v.s

\* the type lookup of a status update failed, the token "in progress", which has no
\* synonym, was sent unchanged, and the update returned
C23_Witness ==
  /\ Len(calls) = 1
  /\ calls[1].looked_up
  /\ calls[1].work_item_type = <<>>
  /\ calls[1].field_updates = << [k |-> "status", v |-> StrVal(<<"i","n"," ","p","r","o","g","r","e","s","s">>)] >>
  /\ calls[1].operations[1].value.s = <<"i","n"," ","p","r","o","g","r","e","s","s">>
  /\ calls[1].ok

\* the non-blank lines after the header line of the last query's text, stripped
C24_Lines ==
  SelectSeq([i \in 1..(Len(SplitLines(last.user_input)) - 1) |->
               Strip(SplitLines(last.user_input)[i + 1])],
            LAMBDA l : Len(l) > 0)

\* the last query is a batch whose lines all match the task-id pattern
C24_AllLinesHaveIds ==
  /\ last.queried
  /\ Contains(Lower(last.user_input), Lower(BatchHeader))
  /\ Len(C24_Lines) > 0
  /\ \A i \in 1..Len(C24_Lines) : SearchI(C24_Lines[i], batch_task_pattern).found

\* the batch was accepted with one update for every line, and each update has the
\* id of its line and no other keys than start_date, finish_date and status
C24_EveryLineKept ==
  LET e == last.result.metadata.entities
  IN  /\ ~e.batch_update_error
      /\ Len(e.batch_updates) = Len(C24_Lines)
      /\ \A i \in 1..Len(e.batch_updates) :
           /\ e.batch_updates[i].task_id =
                Group(C24_Lines[i], SearchI(C24_Lines[i], batch_task_pattern))
           /\ \A j \in 1..Len(e.batch_updates[i].field_updates) :
                e.batch_updates[i].field_updates[j].k \in {"start_date", "finish_date", "status"}

\* C24 as stated: a batch whose lines all match the task-id pattern is accepted with
\* one update for every line, whatever unrecognised fields the lines have, and only
\* start_date, finish_date and status are carried into the field_updates.
C24_UnrecognisedFieldsIgnored ==
  C24_AllLinesHaveIds => C24_EveryLineKept

\* C25: a text with an update keyword is classified as task_update, with confidence
\* 0.8 if the extractor found a task_id in it and with confidence 0.6 if it found
\* none.
C25_ConfidenceTellsId ==
  (last.queried /\ last.user_input # NotText /\ has_update_keyword(last.user_input)) =>
    /\ last.result.intent = "task_update"
    /\ last.result.confidence =
         IF Len(last.result.metadata.entities.task_id) > 0 THEN 8 ELSE 6

\* C26: in the field_updates of a single update only start_date and finish_date
\* have a date of the text as their value.
C26_DatesOnlyInDateFields ==
  LET e == last.result.metadata.entities
  IN  (last.queried /\ Len(e.batch_updates) = 0) =>
        \A i \in 1..Len(calls) :
          \A j \in 1..Len(calls[i].field_updates) :
            (/\ calls[i].field_updates[j].v.t = "str"
             /\ InSeq(calls[i].field_updates[j].v.s, e.date_values))
            => calls[i].field_updates[j].k \in {"start_date", "finish_date"}

\* C27: a task_id in the entities, the single one or that of a batch item, consists
\* of digits only; no query is answered with the invalid-id-format rejection or with
\* the invalid-task-ids rejection of a batch; and a text that names "TASK-abc" is
\* answered with the missing-id rejection.
C27_TaskIdsAreDigits ==
  LET e == last.result.metadata.entities
      m == last.tool_result.message
  IN  last.queried =>
        /\ Len(e.task_id) > 0 => IsDigit(e.task_id)
        /\ \A i \in 1..Len(e.batch_updates) : IsDigit(e.batch_updates[i].task_id)
        /\ m.kind \notin {"invalid_work_item_id_format", "invalid_task_ids"}
        /\ (/\ has_update_keyword(last.user_input)
            /\ Contains(Lower(last.user_input), <<"t","a","s","k","-","a","b","c">>))
           => /\ Len(e.task_id) = 0
              /\ m.kind = "missing_work_item_id"

\* C28: a text with the batch header yields entities without a task_id and is never
\* answered by the single-item path; its answer is the report of the batch, the
\* malformed-batch rejection or the missing-id rejection, the last one exactly when
\* no non-blank line follows the header line.
C28_BatchNeverSingle ==
  LET e == last.result.metadata.entities
      m == last.tool_result.message
  IN  (/\ last.queried
       /\ Contains(Lower(last.user_input), Lower(BatchHeader)))
      => /\ Len(e.task_id) = 0
         /\ m.kind \notin {"task_updated", "failed_to_update_task", "missing_field_updates"}
         /\ m.kind \in {"batch_completed", "batch_partially_completed",
                        "invalid_batch_update_format", "missing_work_item_id"}
         /\ (m.kind = "missing_work_item_id") <=> (Len(C24_Lines) = 0)

\* C29: a process_query call answered by the last-resort handler leaves the
\* conversation history as it was; every other process_query call, whatever the tool
\* answered, puts exactly one entry behind the entries the history held, the entry
\* of the query just answered (the oldest entry is dropped when the history already
\* held 10).
C29_OneEntryPerAnsweredQuery ==
  [][(/\ last'.queried
      /\ ~(conversation_history' = <<>> /\ last' = last))
     => IF last'.result = error_envelope
        THEN conversation_history' = conversation_history
        ELSE conversation_history' =
               (IF Len(conversation_history) < history_capacity
                THEN conversation_history ELSE Tail(conversation_history))
               \o <<[user_input |-> last'.user_input, intent |-> last'.result.intent,
                     confidence |-> last'.result.confidence,
                     entities |-> last'.result.metadata.entities,
                     response |-> last'.result.response]>>]_vars

\* the backend refused the update of the last query, and the query is the one entry
\* of the history
C29_Witness ==
  /\ last.queried
  /\ last.tool_result.message.kind = "failed_to_update_task"
  /\ ~last.tool_result.success
  /\ Len(conversation_history) = 1
  /\ conversation_history[1].user_input = last.user_input
  /\ conversation_history[1].response = last.result.response

\* C30: the summary of a single update that succeeded lists the fields and values
\* of the field_updates as planned and as handed to update_work_item, a status in
\* lower case as the extractor yields it (no legal state is lower-case) and a date
\* as the text has it, whatever value the patch operation of the field carries.
C30_SummaryListsPlannedValues ==
  LET e == last.result.metadata.entities
      m == last.tool_result.message
  IN  (last.queried /\ m.kind = "task_updated") =>
        /\ Len(calls) = 1
        /\ m.fields = prepare_field_updates(e)
        /\ m.fields = calls[1].field_updates
        /\ Len(calls[1].operations) = Len(m.fields)
        /\ \A j \in 1..Len(m.fields) :
             /\ m.fields[j].k = "status" => m.fields[j].v.s = Lower(m.fields[j].v.s)
             /\ m.fields[j].k \in {"start_date", "finish_date"}
                  => Contains(last.user_input, m.fields[j].v.s)

\* a single update succeeded whose summary lists the status "resolved" and the date
\* "08/11/2025" while the patch operations carry "Active" and "2025-08-11"
C30_Witness ==
  /\ last.queried
  /\ last.tool_result.message.kind = "task_updated"
  /\ Len(calls) = 1
  /\ \E j \in 1..Len(calls[1].operations) :
       /\ last.tool_result.message.fields[j] = [k |-> "status", v |-> StrVal(<<"r","e","s","o","l","v","e","d">>)]
       /\ calls[1].operations[j].value = StrVal(<<"A","c","t","i","v","e">>)
  /\ \E j \in 1..Len(calls[1].operations) :
       /\ last.tool_result.message.fields[j].k = "finish_date"
       /\ last.tool_result.message.fields[j].v = StrVal(<<"0","8","/","1","1","/","2","0","2","5">>)
       /\ calls[1].operations[j].value = StrVal(<<"2","0","2","5","-","0","8","-","1","1">>)

====
